---- MODULE Spec2Model ----
(***************************************************************************)
(* Groundwater-flow tracer module of code_saturne (src/cdo/cs_gwf_tracer.c) *)
(* Precipitation / dissolution engine of a tracer on a distributed mesh:    *)
(*   _add_precipitation        ->  add_precipitation_local, AddPrecipitation*)
(*   _update_precipitation_vb  ->  UpdateLocal, UpdateSync, UpdateField      *)
(* Real numbers (cs_real_t, double) are exact rationals <<num, den>>;       *)
(* rounding of the floating-point operations is not represented.            *)
(***************************************************************************)
EXTENDS Integers, Sequences, FiniteSets, TLC

VARIABLES
  space_scheme,   \* space scheme of the tracer equation
  conc_w_star,    \* tc->conc_w_star[soil]  (saturated concentration per soil)
  rho_bulk,       \* tc->rho_bulk[soil]
  l_saturation,   \* tc->l_saturation[rank][cell] (liquid saturation, theta)
  c_w,            \* vertex values of the tracer equation, per rank
  conc_precip,    \* tc->conc_precip[rank][j], j index of a (cell, vertex) pair
  conc_satura,    \* tc->conc_satura[rank][v]
  precip_field,   \* tc->precip_field->val[rank][cell]
  c_w_save,       \* the temporary buffer c_w_save of the update, per rank
  c_p_start,      \* history: conc_precip at the entry of the running update
  c_w_local,      \* history: c_w as the local loop left it, before the
                  \* synchronization of the running update
  pc,             \* position of each rank
  n_calls,        \* number of updates completed by the synchronization
  ndebug,         \* the build: TRUE when NDEBUG is defined (assert() is empty)
  model,          \* tracer->model, the set of its flags
  soil_bulk_density,        \* soil->bulk_density, per soil
  soil_saturated_moisture,  \* cs_gwf_soil_get_saturated_moisture, per soil
  kd0,            \* tc->kd0[soil]
  rho_kd,         \* tc->rho_kd[soil]
  alpha_l,        \* tc->alpha_l[soil]
  alpha_t,        \* tc->alpha_t[soil]
  wmd,            \* tc->wmd[soil]
  reaction_rate,  \* tc->reaction_rate[soil]
  diffusivity,    \* tracer->diffusivity: NULL, or its values per rank and cell
  reaction_id,    \* tracer->reaction_id, -1 when no reaction term is added
  time_pty,       \* definitions of the time property, per soil zone
  reaction_pty,   \* definitions of the reaction property, per soil zone
  pty_eval,       \* the last evaluation of a property: its call and result
  tpc,            \* position of the tracer in its life cycle
  darcy_velocity, \* tc->darcy_velocity_field->val, per rank and cell
  cm,             \* the cell-wise view of the mesh (cs_cell_mesh_t)
  div,            \* the array handed to cs_cdofb_navsto_divergence_vect
  nsb,            \* the builder (cs_cdofb_navsto_builder_t): bf_type,
                  \* pressure_bc_val
  bc,             \* the boundary types of all boundary faces and the
                  \* definitions of the pressure boundary conditions
  t_eval,         \* the time of evaluation of the pressure
  call,           \* the last call of a public function of the tracer: the
                  \* function, the tracer it received and how it ended
  gui,            \* the setup read from the GUI: the boundary zones of the
                  \* tree and the options of the computation
  bdy,            \* the boundary types added by cs_boundary_add, per zone
  boundaries,     \* the static structure boundaries, NULL until
                  \* _init_boundaries
  f_roughness,    \* the field boundary_roughness: NULL, or its values
  rcodcl,         \* the velocity stored by uiclim, per boundary face
  itypfb,         \* the type stored by uiclim, per boundary face
  gui_pc,         \* how far the setup from the GUI has run, and how its
                  \* functions ended
  mesh_params,    \* _mesh_params: NULL, or the parameters of the
                  \* Cartesian mesh
  build_mesh_cartesian, \* _build_mesh_cartesian
  mb,             \* the mesh builder cs_mesh_cartesian_connectivity fills
  mesh_pc         \* how the last function of the Cartesian mesh ended

\* the state of the precipitation engine
gwf_vars == <<space_scheme, conc_w_star, rho_bulk, l_saturation, c_w,
              conc_precip, conc_satura, precip_field, c_w_save, c_p_start,
              c_w_local, pc, n_calls>>

\* the state the precipitation engine does not touch
\* the context of the tracer and its properties
tc_vars == <<model, soil_bulk_density, soil_saturated_moisture, kd0, rho_kd,
             alpha_l, alpha_t, wmd, reaction_rate, diffusivity, reaction_id,
             time_pty, reaction_pty, pty_eval, tpc, darcy_velocity, call>>

\* the cell-wise building of the Navier-Stokes system (CDO face-based)
navsto_vars == <<cm, div, nsb, bc, t_eval>>

\* the boundary conditions read from the GUI
gui_vars == <<gui, bdy, boundaries, f_roughness, rcodcl, itypfb, gui_pc>>

\* the Cartesian mesh
mesh_vars == <<mesh_params, build_mesh_cartesian, mb, mesh_pc>>

\* the state outside the tracer
rest_vars == <<ndebug, navsto_vars, gui_vars, mesh_vars>>

other_vars == <<rest_vars, tc_vars>>

vars == <<gwf_vars, other_vars>>

(***************************************************************************)
(* Exact arithmetic on rationals <<n, d>>, d > 0, in lowest terms           *)
(***************************************************************************)
NULL == <<>>

Abs(a) == IF a < 0 THEN -a ELSE a

RECURSIVE Gcd(_, _)
Gcd(a, b) == IF b = 0 THEN a ELSE Gcd(b, a % b)

Rat(n, d) ==
  LET s == IF d < 0 THEN -1 ELSE 1
      g == Gcd(Abs(n), Abs(d))
  IN  <<(s * n) \div g, (s * d) \div g>>

R(i) == <<i, 1>>

RAdd(x, y) == Rat(x[1] * y[2] + y[1] * x[2], x[2] * y[2])
RSub(x, y) == Rat(x[1] * y[2] - y[1] * x[2], x[2] * y[2])
RMul(x, y) == Rat(x[1] * y[1], x[2] * y[2])
RDiv(x, y) == Rat(x[1] * y[2], x[2] * y[1])
RLeq(x, y) == x[1] * y[2] <= y[1] * x[2]
RLt(x, y)  == x[1] * y[2] < y[1] * x[2]

CS_MIN(a, b) == IF RLt(a, b) THEN a ELSE b
CS_MAX(a, b) == IF RLt(b, a) THEN a ELSE b

Seq0(s) == [i \in 0..(Len(s) - 1) |-> s[i + 1]]

(***************************************************************************)
(* Bounds and input sets                                                   *)
(***************************************************************************)
MaxCalls == 2

ConcSet  == {R(0), R(1), R(2)}
WStarSet == {R(1), R(2)}
RhoSet   == {R(1), R(2)}
ThetaSet == {<<1, 2>>, R(1)}

(***************************************************************************)
(* The distributed mesh: two ranks, three cells, two soils, two vertices.   *)
(*   rank 1: cell 0 = {v0, v1} (soil 1), cell 1 = {v1} (soil 0)             *)
(*   rank 2: cell 0 = {v0} (soil 0); its v0 is rank 1's v1                  *)
(* c2v keeps, for each cell, the vertices that matter here: v0 of rank 1    *)
(* lies in soil 1 only, v1 lies in both soils and on both ranks.            *)
(***************************************************************************)
Ranks == {1, 2}
n_soils == 2
Soils == 0..(n_soils - 1)

n_cells    == <<2, 1>>
n_vertices == <<2, 1>>
c2v_idx    == <<Seq0(<<0, 2, 3>>), Seq0(<<0, 1>>)>>
c2v_ids    == <<Seq0(<<0, 1, 1>>), Seq0(<<0>>)>>
cell_vol   == <<Seq0(<<R(2), R(3)>>), Seq0(<<R(2)>>)>>
dcell_vol  == <<Seq0(<<R(1), R(1), R(3)>>), Seq0(<<R(2)>>)>>

Cells(r) == 0..(n_cells[r] - 1)
Vertices(r) == 0..(n_vertices[r] - 1)
Pairs(r) == 0..(c2v_idx[r][n_cells[r]] - 1)

\* cs_volume_zone_by_id(soil->zone_id) on each rank
\* (elt_ids is NULL for a zone holding every cell of the rank)
zone ==
  <<[s \in Soils |-> IF s = 0 THEN [n_elts |-> 1, elt_ids |-> Seq0(<<1>>)]
                              ELSE [n_elts |-> 1, elt_ids |-> Seq0(<<0>>)]],
    [s \in Soils |-> IF s = 0 THEN [n_elts |-> 1, elt_ids |-> NULL]
                              ELSE [n_elts |-> 0, elt_ids |-> NULL]]>>

\* connect->interfaces[CS_CDO_CONNECT_VTX_SCAL]: the groups of copies
\* <<rank, local vertex>> of one vertex held by several ranks
vtx_interface == {{<<1, 1>>, <<2, 0>>}}

Copies(r, v) ==
  IF \E g \in vtx_interface : <<r, v>> \in g
    THEN CHOOSE g \in vtx_interface : <<r, v>> \in g
    ELSE {<<r, v>>}

RECURSIVE RMaxOf(_, _)
RMaxOf(f, S) ==
  LET e == CHOOSE x \in S : TRUE
  IN  IF S = {e} THEN f[e[1]][e[2]]
      ELSE CS_MAX(f[e[1]][e[2]], RMaxOf(f, S \ {e}))

RECURSIVE RMinOf(_, _)
RMinOf(f, S) ==
  LET e == CHOOSE x \in S : TRUE
  IN  IF S = {e} THEN f[e[1]][e[2]]
      ELSE CS_MIN(f[e[1]][e[2]], RMinOf(f, S \ {e}))

cs_interface_set_max(var) ==
  [r \in Ranks |-> [v \in Vertices(r) |-> RMaxOf(var, Copies(r, v))]]

cs_interface_set_min(var) ==
  [r \in Ranks |-> [v \in Vertices(r) |-> RMinOf(var, Copies(r, v))]]

(***************************************************************************)
(* _add_precipitation                                                      *)
(***************************************************************************)
a_size(r, scheme) ==
  IF scheme = "CS_SPACE_SCHEME_CDOVB" THEN c2v_idx[r][n_cells[r]]
  ELSE c2v_idx[r][n_cells[r]] + n_cells[r]

RECURSIVE satura_vertices(_, _, _, _, _)
satura_vertices(cs, r, c_id, j, c_sat) ==
  IF j >= c2v_idx[r][c_id + 1] THEN cs
  ELSE LET v_id == c2v_ids[r][j]
       IN  satura_vertices([cs EXCEPT ![v_id] = CS_MIN(cs[v_id], c_sat)],
                           r, c_id, j + 1, c_sat)

RECURSIVE satura_cells(_, _, _, _, _)
satura_cells(cs, r, z, i, c_sat) ==
  IF i >= z.n_elts THEN cs
  ELSE LET c_id == z.elt_ids[i]
       IN  satura_cells(satura_vertices(cs, r, c_id, c2v_idx[r][c_id], c_sat),
                        r, z, i + 1, c_sat)

RECURSIVE satura_soils(_, _, _, _)
satura_soils(cs, r, soil_id, w_star) ==
  IF soil_id >= n_soils THEN cs
  ELSE LET c_sat == w_star[soil_id]
       IN  IF soil_id = 0
             THEN satura_soils([v \in Vertices(r) |-> c_sat], r, soil_id + 1, w_star)
             ELSE satura_soils(satura_cells(cs, r, zone[r][soil_id], 0, c_sat),
                               r, soil_id + 1, w_star)

\* variant: the arrays are built whatever the space scheme
add_precipitation_local_any_scheme(r) ==
  /\ pc[r] = "init"
  /\ UNCHANGED other_vars
  /\ conc_precip' = [conc_precip EXCEPT
                       ![r] = [j \in 0..(a_size(r, space_scheme) - 1) |-> R(0)]]
  /\ conc_satura' = [conc_satura EXCEPT
                       ![r] = satura_soils(NULL, r, 0, conc_w_star)]
  /\ pc' = [pc EXCEPT ![r] = "setup_sync"]
  /\ UNCHANGED <<space_scheme, conc_w_star, rho_bulk, l_saturation, c_w,
                 precip_field, c_w_save, c_p_start, n_calls, c_w_local>>

\* _add_precipitation on rank r, up to the interface synchronization; the
\* default case of the switch on the space scheme is a bft_error
add_precipitation_local(r) ==
  /\ pc[r] = "init"
  /\ UNCHANGED other_vars
  /\ IF space_scheme \in {"CS_SPACE_SCHEME_CDOVB", "CS_SPACE_SCHEME_CDOVCB"}
       THEN /\ conc_precip' =
                 [conc_precip EXCEPT
                    ![r] = [j \in 0..(a_size(r, space_scheme) - 1) |-> R(0)]]
            /\ conc_satura' =
                 [conc_satura EXCEPT
                    ![r] = satura_soils(NULL, r, 0, conc_w_star)]
            /\ pc' = [pc EXCEPT ![r] = "setup_sync"]
       ELSE /\ pc' = [pc EXCEPT ![r] = "bft_error"]
            /\ UNCHANGED <<conc_precip, conc_satura>>
  /\ UNCHANGED <<space_scheme, conc_w_star, rho_bulk, l_saturation, c_w,
                 precip_field, c_w_save, c_p_start, n_calls, c_w_local>>

AddPrecipitationSync ==
  /\ \A r \in Ranks : pc[r] = "setup_sync"
  /\ UNCHANGED other_vars
  /\ conc_satura' = cs_interface_set_min(conc_satura)
  /\ pc' = [r \in Ranks |-> "ready"]
  /\ UNCHANGED <<space_scheme, conc_w_star, rho_bulk, l_saturation, c_w,
                 conc_precip, precip_field, c_w_save, c_p_start, n_calls, c_w_local>>

(***************************************************************************)
(* _update_precipitation_vb                                                *)
(***************************************************************************)
\* line 700: test of the dissolution branch
is_dissolution(sav_v, c_sat, c_p_j) == RLeq(sav_v, c_sat) /\ RLt(R(0), c_p_j)

\* line 708: test of the precipitation branch
is_precipitation(sav_v, c_sat) == RLt(c_sat, sav_v)

\* variant: the concentration reachable by dissolving the whole precipitate,
\* not limited by the saturation
c_w_max_of_unclamped(c_sat, sav_v, rho, inv_theta_c, c_p_j) ==
  RAdd(sav_v, RMul(RMul(rho, inv_theta_c), c_p_j))

\* variant: dissolution up to the saturation, whatever precipitate is left
c_w_max_of_saturated(c_sat, sav_v, rho, inv_theta_c, c_p_j) == c_sat

\* lines 702-703
c_w_max_of(c_sat, sav_v, rho, inv_theta_c, c_p_j) ==
  CS_MIN(c_sat, RAdd(sav_v, RMul(RMul(rho, inv_theta_c), c_p_j)))

\* variant: the dissolved amount is not divided by the bulk density
dissolved_c_p_no_rho(c_p_j, theta_c, inv_rho, c_w_max, sav_v) ==
  RSub(c_p_j, RMul(theta_c, RSub(c_w_max, sav_v)))

\* line 704
dissolved_c_p(c_p_j, theta_c, inv_rho, c_w_max, sav_v) ==
  RSub(c_p_j, RMul(RMul(theta_c, inv_rho), RSub(c_w_max, sav_v)))

\* variant: plain assignment, the value another cell gave is overwritten
dissolved_c_w_assign(c_w_v, c_w_max) == c_w_max

\* line 705
dissolved_c_w(c_w_v, c_w_max) == CS_MAX(c_w_v, c_w_max)

\* variant: the excess is not scaled by the liquid saturation
precipitated_c_p_no_theta(c_p_j, theta_c, inv_rho, sav_v, c_sat) ==
  RAdd(c_p_j, RMul(inv_rho, RSub(sav_v, c_sat)))

\* line 710
precipitated_c_p(c_p_j, theta_c, inv_rho, sav_v, c_sat) ==
  RAdd(c_p_j, RMul(RMul(theta_c, inv_rho), RSub(sav_v, c_sat)))

\* line 711
precipitated_c_w(c_w_v, c_sat) == c_sat

\* lines 697-713: one (cell, vertex) pair j of cell c_id; st = [c_w, c_p]
update_pair(st, r, sav, theta, rho, c_id, j) ==
  LET v_id == c2v_ids[r][j]
      c_sat == conc_satura[r][v_id]
      theta_c == theta[c_id]
      inv_theta_c == RDiv(R(1), theta_c)
      inv_rho == RDiv(R(1), rho)
  IN  IF is_dissolution(sav[v_id], c_sat, st.c_p[j])
        THEN LET c_w_max == c_w_max_of(c_sat, sav[v_id], rho, inv_theta_c, st.c_p[j])
             IN  [c_p |-> [st.c_p EXCEPT ![j] =
                            dissolved_c_p(st.c_p[j], theta_c, inv_rho,
                                          c_w_max, sav[v_id])],
                  c_w |-> [st.c_w EXCEPT ![v_id] =
                            dissolved_c_w(st.c_w[v_id], c_w_max)]]
      ELSE IF is_precipitation(sav[v_id], c_sat)
        THEN [c_p |-> [st.c_p EXCEPT ![j] =
                         precipitated_c_p(st.c_p[j], theta_c, inv_rho,
                                          sav[v_id], c_sat)],
              c_w |-> [st.c_w EXCEPT ![v_id] =
                         precipitated_c_w(st.c_w[v_id], c_sat)]]
      ELSE st

RECURSIVE update_vertices(_, _, _, _, _, _, _)
update_vertices(st, r, sav, theta, rho, c_id, j) ==
  IF j >= c2v_idx[r][c_id + 1] THEN st
  ELSE update_vertices(update_pair(st, r, sav, theta, rho, c_id, j),
                       r, sav, theta, rho, c_id, j + 1)

RECURSIVE update_cells(_, _, _, _, _, _, _)
update_cells(st, r, sav, theta, rho, z, i) ==
  IF i >= z.n_elts THEN st
  ELSE LET c_id == IF z.elt_ids = NULL THEN i ELSE z.elt_ids[i]
       IN  update_cells(update_vertices(st, r, sav, theta, rho, c_id,
                                        c2v_idx[r][c_id]),
                        r, sav, theta, rho, z, i + 1)

RECURSIVE update_soils(_, _, _, _, _)
update_soils(st, r, sav, theta, soil_id) ==
  IF soil_id >= n_soils THEN st
  ELSE update_soils(update_cells(st, r, sav, theta, rho_bulk[soil_id],
                                 zone[r][soil_id], 0),
                    r, sav, theta, soil_id + 1)

\* The tracer equation and the Richards equation are solved between two
\* updates: the update reads the vertex values of the tracer (line 668)
\* and the liquid saturation (line 676) they left. A vertex held by
\* several ranks has the same value on each of them.
Consistent(cw) ==
  \A g \in vtx_interface : \A x, y \in g : cw[x[1]][x[2]] = cw[y[1]][y[2]]

Solve ==
  /\ \A r \in Ranks : pc[r] = "ready"
  /\ UNCHANGED other_vars
  /\ n_calls < MaxCalls
  /\ c_w' \in {cw \in [Ranks -> UNION {[Vertices(r) -> ConcSet] : r \in Ranks}] :
                 /\ \A r \in Ranks : DOMAIN cw[r] = Vertices(r)
                 /\ Consistent(cw)}
  /\ l_saturation' \in {th \in [Ranks -> UNION {[Cells(r) -> ThetaSet] : r \in Ranks}] :
                          \A r \in Ranks : DOMAIN th[r] = Cells(r)}
  /\ pc' = [r \in Ranks |-> "solved"]
  /\ UNCHANGED <<space_scheme, conc_w_star, rho_bulk, conc_precip,
                 conc_satura, precip_field, c_w_save, c_p_start, n_calls, c_w_local>>

\* lines 739-740
RECURSIVE field_sum(_, _, _, _)
field_sum(r, c_p, j, j_end) ==
  IF j >= j_end THEN R(0)
  ELSE RAdd(RMul(dcell_vol[r][j], c_p[j]), field_sum(r, c_p, j + 1, j_end))

\* variant: the integral is not divided by the volume of the cell
field_value_undivided(r, c_p, c_id) ==
  field_sum(r, c_p, c2v_idx[r][c_id], c2v_idx[r][c_id + 1])

\* lines 737-741
field_value(r, c_p, c_id) ==
  RDiv(field_sum(r, c_p, c2v_idx[r][c_id], c2v_idx[r][c_id + 1]),
       cell_vol[r][c_id])

\* variant: the cell-wise field is computed at the end of the local loop,
\* ahead of the synchronization
UpdateLocal_with_field(r) ==
  /\ pc[r] = "solved"
  /\ UNCHANGED other_vars
  /\ conc_satura[r] # NULL /\ conc_precip[r] # NULL
  /\ LET st == update_soils([c_w |-> c_w[r], c_p |-> conc_precip[r]],
                            r, c_w[r], l_saturation[r], 0)
     IN  /\ c_w' = [c_w EXCEPT ![r] = st.c_w]
         /\ conc_precip' = [conc_precip EXCEPT ![r] = st.c_p]
         /\ precip_field' = [precip_field EXCEPT
               ![r] = [c \in Cells(r) |-> field_value(r, st.c_p, c)]]
  /\ c_w_save' = [c_w_save EXCEPT ![r] = c_w[r]]
  /\ c_p_start' = [c_p_start EXCEPT ![r] = conc_precip[r]]
  /\ pc' = [pc EXCEPT ![r] = "local_done"]
  /\ UNCHANGED <<space_scheme, conc_w_star, rho_bulk, l_saturation,
                 conc_satura, c_w_local, n_calls>>

\* lines 659-719: snapshot of c_w, then the loop on soils, cells and vertices
UpdateLocal(r) ==
  /\ pc[r] = "solved"
  /\ UNCHANGED other_vars
  /\ conc_satura[r] # NULL /\ conc_precip[r] # NULL
  /\ LET st == update_soils([c_w |-> c_w[r], c_p |-> conc_precip[r]],
                            r, c_w[r], l_saturation[r], 0)
     IN  /\ c_w' = [c_w EXCEPT ![r] = st.c_w]
         /\ conc_precip' = [conc_precip EXCEPT ![r] = st.c_p]
  /\ c_w_save' = [c_w_save EXCEPT ![r] = c_w[r]]
  /\ c_p_start' = [c_p_start EXCEPT ![r] = conc_precip[r]]
  /\ pc' = [pc EXCEPT ![r] = "local_done"]
  /\ UNCHANGED <<space_scheme, conc_w_star, rho_bulk, l_saturation,
                 conc_satura, precip_field, n_calls, c_w_local>>

\* variant: the reduction is left out
UpdateSync_skipped ==
  /\ \A r \in Ranks : pc[r] = "local_done"
  /\ UNCHANGED other_vars
  /\ pc' = [r \in Ranks |-> "synced"]
  /\ c_w_local' = c_w
  /\ n_calls' = n_calls + 1
  /\ UNCHANGED <<space_scheme, conc_w_star, rho_bulk, l_saturation, c_w,
                 conc_precip, conc_satura, precip_field, c_w_save, c_p_start>>

\* variant: the copies of a vertex are summed, as for an assembled quantity
RECURSIVE RSumOf(_, _)
RSumOf(f, S) ==
  LET e == CHOOSE x \in S : TRUE
  IN  IF S = {e} THEN f[e[1]][e[2]]
      ELSE RAdd(f[e[1]][e[2]], RSumOf(f, S \ {e}))

UpdateSync_sum ==
  /\ \A r \in Ranks : pc[r] = "local_done"
  /\ UNCHANGED other_vars
  /\ c_w' = [r \in Ranks |-> [v \in Vertices(r) |-> RSumOf(c_w, Copies(r, v))]]
  /\ pc' = [r \in Ranks |-> "synced"]
  /\ c_w_local' = c_w
  /\ n_calls' = n_calls + 1
  /\ UNCHANGED <<space_scheme, conc_w_star, rho_bulk, l_saturation,
                 conc_precip, conc_satura, precip_field, c_w_save, c_p_start>>

\* lines 721-729: parallel synchronization
UpdateSync ==
  /\ \A r \in Ranks : pc[r] = "local_done"
  /\ UNCHANGED other_vars
  /\ c_w' = IF vtx_interface # {} THEN cs_interface_set_max(c_w) ELSE c_w
  /\ pc' = [r \in Ranks |-> "synced"]
  /\ c_w_local' = c_w
  /\ n_calls' = n_calls + 1
  /\ UNCHANGED <<space_scheme, conc_w_star, rho_bulk, l_saturation,
                 conc_precip, conc_satura, precip_field, c_w_save, c_p_start>>

\* lines 731-747: cell-wise precipitate field, release of c_w_save
UpdateField(r) ==
  /\ pc[r] = "synced"
  /\ UNCHANGED other_vars
  /\ precip_field' = [precip_field EXCEPT
                        ![r] = [c \in Cells(r) |-> field_value(r, conc_precip[r], c)]]
  /\ c_w_save' = [c_w_save EXCEPT ![r] = NULL]
  /\ c_p_start' = [c_p_start EXCEPT ![r] = NULL]
  /\ c_w_local' = [c_w_local EXCEPT ![r] = NULL]
  /\ pc' = [pc EXCEPT ![r] = "ready"]
  /\ UNCHANGED <<space_scheme, conc_w_star, rho_bulk, l_saturation, c_w,
                 conc_precip, conc_satura, n_calls>>

(***************************************************************************)
(* Specification                                                           *)
(***************************************************************************)
\* cs_gwf_tracer_init, lines 979-1023: the precipitation members are NULL
GwfInit ==
  /\ space_scheme = "CS_SPACE_SCHEME_CDOVB"
  /\ conc_w_star \in [Soils -> WStarSet]
  /\ rho_bulk \in [Soils -> RhoSet]
  /\ l_saturation = [r \in Ranks |-> NULL]
  /\ c_w = [r \in Ranks |-> [v \in Vertices(r) |-> R(0)]]
  /\ conc_precip = [r \in Ranks |-> NULL]
  /\ conc_satura = [r \in Ranks |-> NULL]
  /\ precip_field = [r \in Ranks |-> [c \in Cells(r) |-> R(0)]]
  /\ c_w_save = [r \in Ranks |-> NULL]
  /\ c_p_start = [r \in Ranks |-> NULL]
  /\ c_w_local = [r \in Ranks |-> NULL]
  /\ pc = [r \in Ranks |-> "init"]
  /\ n_calls = 0

\* the build checks its assertions
BuildIdle == ndebug = FALSE

\* the tracer of the precipitation engine: its parameters are set (unit
\* distribution coefficient, no dispersion, no reaction), its properties
\* are not evaluated
TracerIdle ==
  /\ model = {"CS_GWF_TRACER_PRECIPITATION"}
  /\ soil_bulk_density = rho_bulk
  /\ soil_saturated_moisture = [s \in Soils |-> R(1)]
  /\ kd0 = [s \in Soils |-> R(1)]
  /\ rho_kd = rho_bulk
  /\ alpha_l = [s \in Soils |-> R(0)]
  /\ alpha_t = [s \in Soils |-> R(0)]
  /\ wmd = [s \in Soils |-> R(0)]
  /\ reaction_rate = [s \in Soils |-> R(0)]
  /\ diffusivity = NULL
  /\ reaction_id = -1
  /\ time_pty = NULL
  /\ reaction_pty = NULL
  /\ pty_eval = NULL
  /\ darcy_velocity = NULL
  /\ tpc = "engine"    \* the life cycle is followed by pc
  /\ call = NULL

\* no boundary condition is read from the GUI
GuiIdle ==
  /\ gui = NULL /\ bdy = NULL /\ boundaries = NULL /\ f_roughness = NULL
  /\ rcodcl = NULL /\ itypfb = NULL /\ gui_pc = NULL

\* no Cartesian mesh is asked for
MeshIdle ==
  /\ mesh_params = NULL /\ build_mesh_cartesian = 0 /\ mb = NULL
  /\ mesh_pc = "returned"

\* no cell system is being built
NavstoIdle ==
  /\ cm = NULL /\ div = NULL /\ nsb = NULL /\ bc = NULL /\ t_eval = 0
  /\ GuiIdle /\ MeshIdle

Init == GwfInit /\ BuildIdle /\ TracerIdle /\ NavstoIdle

Next ==
  \/ \E r \in Ranks : add_precipitation_local(r)
  \/ AddPrecipitationSync
  \/ Solve
  \/ \E r \in Ranks : UpdateLocal(r)
  \/ UpdateSync
  \/ \E r \in Ranks : UpdateField(r)

Spec == Init /\ [][Next]_vars

(***************************************************************************)
(* The update called on a tracer that cs_gwf_tracer_init has built and     *)
(* that no setup has completed: conc_satura and conc_precip are NULL       *)
(***************************************************************************)
\* line 663: the condition of the sanity check
sanity_check(r) == conc_satura[r] # NULL /\ conc_precip[r] # NULL

\* lines 699-700 read tc->conc_satura[v_id] and c_p[j] through a null
\* pointer when the check of line 663 is compiled out: undefined behaviour,
\* the process is killed by the trap or goes on in an undefined way
NullReadOutcomes == {"sigsegv", "undefined"}

\* variant: the update returns at once when the arrays are not built
UpdateUnset_skip(r) ==
  /\ pc[r] = "init"
  /\ ~sanity_check(r)
  /\ pc' = [pc EXCEPT ![r] = "returned_unset"]
  /\ UNCHANGED <<space_scheme, conc_w_star, rho_bulk, l_saturation, c_w,
                 conc_precip, conc_satura, precip_field, c_w_save, c_p_start,
                 c_w_local, n_calls>>
  /\ UNCHANGED other_vars

\* lines 659-663 (and 699-700 in a build with NDEBUG)
UpdateUnset(r) ==
  /\ pc[r] = "init"
  /\ ~sanity_check(r)
  /\ IF ~ndebug
       THEN pc' = [pc EXCEPT ![r] = "assert_failed"]
       ELSE \E o \in NullReadOutcomes : pc' = [pc EXCEPT ![r] = o]
  /\ UNCHANGED <<space_scheme, conc_w_star, rho_bulk, l_saturation, c_w,
                 conc_precip, conc_satura, precip_field, c_w_save, c_p_start,
                 c_w_local, n_calls>>
  /\ UNCHANGED other_vars

InitUnset == GwfInit /\ ndebug \in BOOLEAN /\ TracerIdle /\ NavstoIdle

NextUnset ==
  \/ \E r \in Ranks : add_precipitation_local(r)
  \/ AddPrecipitationSync
  \/ \E r \in Ranks : UpdateUnset(r)

SpecUnset == InitUnset /\ [][NextUnset]_vars

(***************************************************************************)
(* Properties of the precipitation / dissolution engine                    *)
(***************************************************************************)
\* an update has been synchronized on rank r (c_w_save is still allocated)
Synced(r) == pc[r] = "synced"

\* rank r has returned from at least one update
Returned(r) == pc[r] = "ready" /\ n_calls > 0

\* the vertex of pair j, its cell, the soil of a cell
VtxOf(r, j) == c2v_ids[r][j]
CellOf(r, j) == CHOOSE c \in Cells(r) : c2v_idx[r][c] <= j /\ j < c2v_idx[r][c + 1]
ZoneCells(r, s) ==
  {IF zone[r][s].elt_ids = NULL THEN i ELSE zone[r][s].elt_ids[i] :
     i \in 0..(zone[r][s].n_elts - 1)}
SoilOf(r, c) == CHOOSE s \in Soils : c \in ZoneCells(r, s)
PairsAt(r, v) == {j \in Pairs(r) : VtxOf(r, j) = v}

\* C1: after every update, also after its parallel synchronization, the
\* dissolved concentration of every vertex is at most its saturation.
C1_SaturationClamp ==
  \A r \in Ranks : (Synced(r) \/ Returned(r)) =>
    \A v \in Vertices(r) : RLeq(c_w[r][v], conc_satura[r][v])

\* C1 witness: a vertex came in above its saturation and was clamped.
C1_Witness ==
  \E r \in Ranks : Synced(r) /\
    \E v \in Vertices(r) : /\ RLt(conc_satura[r][v], c_w_save[r][v])
                            /\ c_w[r][v] = conc_satura[r][v]

AllSynced == \A r \in Ranks : Synced(r)

\* theta_c / rho of the cell and soil of pair j
K(r, j) ==
  RDiv(l_saturation[r][CellOf(r, j)], rho_bulk[SoilOf(r, CellOf(r, j))])

\* pair j took the dissolving branch of the running update
Dissolving(r, j) ==
  /\ RLeq(c_w_save[r][VtxOf(r, j)], conc_satura[r][VtxOf(r, j)])
  /\ RLt(R(0), c_p_start[r][j])

\* min(c_sat[v], c_w_saved[v] + rho/theta_c * c_p) of pair j
Bound(r, j) ==
  LET reach == RAdd(c_w_save[r][VtxOf(r, j)], RDiv(c_p_start[r][j], K(r, j)))
  IN  IF RLeq(conc_satura[r][VtxOf(r, j)], reach)
        THEN conc_satura[r][VtxOf(r, j)] ELSE reach

DeltaCw(r, v) == RSub(c_w[r][v], c_w_save[r][v])
DeltaCp(r, j) == RSub(conc_precip[r][j], c_p_start[r][j])

\* the dissolving pairs <<rank, j>> adjacent to a copy of vertex v of rank r
DissolvingAt(r, v) ==
  {p \in UNION {{<<x[1], j>> : j \in PairsAt(x[1], x[2])} : x \in Copies(r, v)} :
     Dissolving(p[1], p[2])}

C4_Original ==
  \A r \in Ranks : Synced(r) =>
    \A j \in Pairs(r) : Dissolving(r, j) =>
      /\ RLeq(c_w_save[r][VtxOf(r, j)], c_w[r][VtxOf(r, j)])
      /\ c_w[r][VtxOf(r, j)] = Bound(r, j)

\* C4 amended: the update does not lower c_w[v] and sets it to the
\* largest bound among the dissolving pairs adjacent to v, on all the
\* ranks that hold v.
C4_DissolvingMax ==
  AllSynced =>
    \A r \in Ranks : \A v \in Vertices(r) : DissolvingAt(r, v) # {} =>
      /\ RLeq(c_w_save[r][v], c_w[r][v])
      /\ \A p \in DissolvingAt(r, v) : RLeq(Bound(p[1], p[2]), c_w[r][v])
      /\ \E p \in DissolvingAt(r, v) : Bound(p[1], p[2]) = c_w[r][v]

\* C4 witness: a vertex with two dissolving pairs of different bounds.
C4_Witness ==
  AllSynced /\
    \E r \in Ranks : \E v \in Vertices(r) :
      \E p, q \in DissolvingAt(r, v) : RLt(Bound(p[1], p[2]), Bound(q[1], q[2]))

\* C5: a vertex that came in above its saturation ends at the saturation,
\* and each adjacent pair gains theta_c/rho * (c_w_saved - c_sat), theta_c
\* and rho being those of the cell and soil of the pair.
C5_Precipitating ==
  \A r \in Ranks : Synced(r) =>
    \A v \in Vertices(r) : RLt(conc_satura[r][v], c_w_save[r][v]) =>
      /\ c_w[r][v] = conc_satura[r][v]
      /\ \A j \in PairsAt(r, v) :
           DeltaCp(r, j) = RMul(K(r, j), RSub(c_w_save[r][v], conc_satura[r][v]))

\* C5 witness: a precipitating vertex whose two pairs gained different amounts.
C5_Witness ==
  \E r \in Ranks : Synced(r) /\
    \E v \in Vertices(r) : RLt(conc_satura[r][v], c_w_save[r][v]) /\
      \E i, j \in PairsAt(r, v) : RLt(DeltaCp(r, i), DeltaCp(r, j))

\* C6: a vertex exactly at saturation whose adjacent pairs hold no
\* precipitate keeps its c_w, and those pairs keep their c_p.
C6_NoOpAtSaturation ==
  \A r \in Ranks : Synced(r) =>
    \A v \in Vertices(r) :
      (/\ c_w_save[r][v] = conc_satura[r][v]
       /\ \A j \in PairsAt(r, v) : c_p_start[r][j] = R(0)) =>
        /\ c_w[r][v] = c_w_save[r][v]
        /\ \A j \in PairsAt(r, v) : conc_precip[r][j] = c_p_start[r][j]

\* C6 witness: such a vertex, held by two ranks, in a synchronized update.
C6_Witness ==
  \E r \in Ranks : Synced(r) /\
    \E v \in Vertices(r) :
      /\ Cardinality(Copies(r, v)) > 1
      /\ c_w_save[r][v] = conc_satura[r][v]
      /\ \A j \in PairsAt(r, v) : c_p_start[r][j] = R(0)
      /\ c_w[r][v] = c_w_save[r][v]
\* C7: after the synchronization all the ranks holding a vertex have the
\* same c_w there, the largest of the values their local loops computed.
C7_CrossRankMax ==
  /\ (\A r \in Ranks : Synced(r) \/ Returned(r)) =>
       \A g \in vtx_interface : \A x, y \in g : c_w[x[1]][x[2]] = c_w[y[1]][y[2]]
  /\ AllSynced =>
       \A g \in vtx_interface : \A x \in g :
         /\ \A y \in g : RLeq(c_w_local[y[1]][y[2]], c_w[x[1]][x[2]])
         /\ \E y \in g : c_w_local[y[1]][y[2]] = c_w[x[1]][x[2]]

\* C7 witness: two ranks computed different values for a vertex they share.
C7_Witness ==
  AllSynced /\
    \E g \in vtx_interface : \E x, y \in g :
      RLt(c_w_local[x[1]][x[2]], c_w_local[y[1]][y[2]])

\* C8: inside one update the reduction of c_w is done when the local loop of
\* every rank is over, c_w and c_p are not written by a rank after it, and
\* the cell-wise precipitate field is written only after it.
C8_Ordering ==
  [][/\ (\E r \in Ranks : pc[r] = "local_done" /\ pc'[r] = "synced") =>
          \A r \in Ranks : pc[r] = "local_done" /\ pc'[r] = "synced"
     /\ \A r \in Ranks :
          /\ precip_field'[r] # precip_field[r] => pc[r] = "synced"
          /\ conc_precip'[r] # conc_precip[r] => pc[r] \in {"init", "solved"}
          /\ (pc[r] = "synced" => c_w'[r] = c_w[r])]_vars

\* C8 witness: an update has run to its end and has written the field.
C8_Witness ==
  \E r \in Ranks : Returned(r) /\ \E c \in Cells(r) : RLt(R(0), precip_field[r][c])

\* the soils with a cell that contains vertex v of rank r, on any rank
SoilsAt(r, v) ==
  {s \in Soils : \E x \in Copies(r, v) : \E c \in ZoneCells(x[1], s) :
     \E j \in c2v_idx[x[1]][c]..(c2v_idx[x[1]][c + 1] - 1) : c2v_ids[x[1]][j] = x[2]}

\* C9 as stated: after _add_precipitation conc_satura[v] is the minimum of
\* conc_w_star over exactly the soils having a cell that contains v.
C9_SaturaIsMinOfAdjacentSoils ==
  (\A r \in Ranks : pc[r] \notin {"init", "setup_sync"}) =>
    \A r \in Ranks : \A v \in Vertices(r) :
      /\ \A s \in SoilsAt(r, v) : RLeq(conc_satura[r][v], conc_w_star[s])
      /\ \E s \in SoilsAt(r, v) : conc_satura[r][v] = conc_w_star[s]

RECURSIVE WeightedSum(_, _, _)
WeightedSum(r, c_p, S) ==
  IF S = {} THEN R(0)
  ELSE LET j == CHOOSE x \in S : TRUE
       IN  RAdd(RMul(dcell_vol[r][j], c_p[j]), WeightedSum(r, c_p, S \ {j}))

\* C10: when an update returns, the precipitate field of every cell is the
\* sum of dcell_vol[j] * c_p[j] over the pairs of the cell, divided by the
\* volume of the cell.
C10_CellAverage ==
  \A r \in Ranks : Returned(r) =>
    \A c \in Cells(r) :
      precip_field[r][c] =
        RDiv(WeightedSum(r, conc_precip[r], {j \in Pairs(r) : CellOf(r, j) = c}),
             cell_vol[r][c])

\* C10 witness: a returned update left precipitate in a cell of two pairs.
C10_Witness ==
  \E r \in Ranks : Returned(r) /\
    \E c \in Cells(r) : /\ Cardinality({j \in Pairs(r) : CellOf(r, j) = c}) > 1
                         /\ RLt(R(0), precip_field[r][c])

\* rank r makes a step out of the state cs_gwf_tracer_init left that is not
\* the setup: the update has been called on the unset tracer
UnsetCall(r) == pc[r] = "init" /\ pc'[r] # "init" /\ conc_satura'[r] = NULL

\* C11 as stated: the update called on a precipitation tracer whose
\* conc_satura or conc_precip is not built ends in an assertion failure.
C11_Original ==
  [][\A r \in Ranks : UnsetCall(r) => pc'[r] = "assert_failed"]_vars

\* C11 amended: in a build that checks assertions the update called on an
\* unset tracer ends in an assertion failure, having changed nothing, and
\* never returns; in a build with NDEBUG it reads through the null arrays.
C11_AssertUnset ==
  [][\A r \in Ranks : UnsetCall(r) =>
       /\ ~ndebug => pc'[r] = "assert_failed"
       /\ ndebug => pc'[r] \in NullReadOutcomes
       /\ conc_precip' = conc_precip /\ c_w' = c_w
       /\ precip_field' = precip_field]_vars

\* C11 witness: an update called before the setup has failed its assertion.
C11_Witness ==
  \E r \in Ranks : pc[r] = "assert_failed" /\ conc_satura[r] = NULL /\ ~ndebug

(***************************************************************************)
(* The context of a default tracer and its parameters                      *)
(***************************************************************************)
\* a tracer built by cs_gwf_tracer_init (a null pointer is NULL)
TheTracer == [eq |-> "tracer_eq"]

\* the names of the soils; a null pointer to a name is NULL_NAME
SoilNames == <<"soil0", "soil1">>
NULL_NAME == "(null)"

\* cs_gwf_soil_by_name: the soils of that name (none: the NULL of the code)
cs_gwf_soil_by_name(soil_name) == {s \in Soils : SoilNames[s + 1] = soil_name}

\* cs_gwf_get_cell2soil: the soil of each cell of rank r
c2s(r) == [c \in Cells(r) |-> SoilOf(r, c)]

\* fabs(x) > thd, thd = 100*DBL_MIN; every value of the input sets other
\* than zero is far above this threshold
above_thd(x) == RLt(R(0), <<Abs(x[1]), x[2]>>)

\* the ways a call ends without returning
FatalOutcomes == {"bft_error", "assert_failed"} \cup NullReadOutcomes

\* the record of a call of a public function: after is the position of the
\* tracer the call leads to
public_call_value(op, tracer, after, value) ==
  [op      |-> op,
   tracer  |-> tracer,
   outcome |-> IF after \in FatalOutcomes THEN after ELSE "returned",
   value   |-> IF after \in FatalOutcomes THEN NULL ELSE value]

\* a call of a function returning void
public_call(op, tracer, after) == public_call_value(op, tracer, after, NULL)

\* the members of the context no function of this part writes
GwfUnchanged ==
  /\ UNCHANGED <<space_scheme, conc_w_star, c_w, conc_precip, conc_satura,
                 precip_field, c_w_save, c_p_start, c_w_local, pc, n_calls>>
  /\ UNCHANGED rest_vars

\* variant: rho_kd keeps the distribution coefficient alone
rho_kd_of_kd_only(bulk_density, distrib_coef) == distrib_coef

\* lines 1104, 1122: tc->rho_kd = soil->bulk_density * distrib_coef
rho_kd_of(bulk_density, distrib_coef) == RMul(bulk_density, distrib_coef)

\* variant: the parameters are given to every soil, whichever is named
set_soils_all(S, p_wmd, p_alpha_l, p_alpha_t, distrib_coef, p_reaction_rate) ==
  /\ rho_bulk' = [s \in Soils |-> soil_bulk_density[s]]
  /\ kd0' = [s \in Soils |-> distrib_coef]
  /\ rho_kd' = [s \in Soils |-> rho_kd_of(soil_bulk_density[s], distrib_coef)]
  /\ alpha_l' = [s \in Soils |-> p_alpha_l]
  /\ alpha_t' = [s \in Soils |-> p_alpha_t]
  /\ wmd' = [s \in Soils |-> p_wmd]
  /\ reaction_rate' = [s \in Soils |-> p_reaction_rate]

\* lines 1102-1108 and 1120-1126: the members set for the soils of S
set_soils(S, p_wmd, p_alpha_l, p_alpha_t, distrib_coef, p_reaction_rate) ==
  /\ rho_bulk' = [s \in Soils |-> IF s \in S THEN soil_bulk_density[s]
                                               ELSE rho_bulk[s]]
  /\ kd0' = [s \in Soils |-> IF s \in S THEN distrib_coef ELSE kd0[s]]
  /\ rho_kd' = [s \in Soils |->
                  IF s \in S THEN rho_kd_of(soil_bulk_density[s], distrib_coef)
                            ELSE rho_kd[s]]
  /\ alpha_l' = [s \in Soils |-> IF s \in S THEN p_alpha_l ELSE alpha_l[s]]
  /\ alpha_t' = [s \in Soils |-> IF s \in S THEN p_alpha_t ELSE alpha_t[s]]
  /\ wmd' = [s \in Soils |-> IF s \in S THEN p_wmd ELSE wmd[s]]
  /\ reaction_rate' = [s \in Soils |-> IF s \in S THEN p_reaction_rate
                                                  ELSE reaction_rate[s]]

\* lines 1078-1129
cs_gwf_set_main_tracer_param(tracer, soil_name, p_wmd, p_alpha_l, p_alpha_t, distrib_coef, p_reaction_rate) ==
  /\ tpc = "init"
  /\ IF tracer = NULL
       THEN /\ tpc' = "bft_error"
            /\ UNCHANGED <<rho_bulk, kd0, rho_kd, alpha_l, alpha_t, wmd,
                           reaction_rate>>
       ELSE IF soil_name = NULL_NAME
         THEN /\ set_soils(Soils, p_wmd, p_alpha_l, p_alpha_t, distrib_coef,
                           p_reaction_rate)
              /\ tpc' = tpc
         ELSE IF cs_gwf_soil_by_name(soil_name) = {}
           THEN /\ tpc' = "bft_error"
                /\ UNCHANGED <<rho_bulk, kd0, rho_kd, alpha_l, alpha_t, wmd,
                               reaction_rate>>
           ELSE /\ set_soils(cs_gwf_soil_by_name(soil_name), p_wmd,
                             p_alpha_l, p_alpha_t, distrib_coef,
                             p_reaction_rate)
                /\ tpc' = tpc
  /\ call' = public_call("cs_gwf_set_main_tracer_param", tracer, tpc')
  /\ GwfUnchanged
  /\ UNCHANGED <<l_saturation, model, soil_bulk_density,
                 soil_saturated_moisture, diffusivity, reaction_id, time_pty,
                 reaction_pty, pty_eval,
                 darcy_velocity>>

\* the soils whose parameters cs_gwf_set_main_tracer_param has set
params_set(s) == rho_kd[s] # NULL

\* lines 1194-1291; the loop of lines 1212-1219 reads the parameters of
\* every soil, which have been set
cs_gwf_tracer_add_terms(tracer) ==
  /\ tpc = "init"
  /\ IF tracer = NULL
       THEN /\ tpc' = "bft_error"
            /\ UNCHANGED <<diffusivity, reaction_id>>
       ELSE /\ \A s \in Soils : params_set(s)
            /\ LET do_diffusion == \E s \in Soils :
                                     \/ above_thd(alpha_t[s])
                                     \/ above_thd(alpha_l[s])
                                     \/ RLt(R(0), wmd[s])
                    do_reaction == \E s \in Soils : above_thd(reaction_rate[s])
               IN  /\ diffusivity' =
                        IF do_diffusion
                          THEN [r \in Ranks |->
                                  [c \in Cells(r) |-> [k \in 0..8 |-> NULL]]]
                          ELSE diffusivity
                   /\ reaction_id' = IF do_reaction THEN 0 ELSE reaction_id
            /\ tpc' = "terms"
  /\ call' = public_call("cs_gwf_tracer_add_terms", tracer, tpc')
  /\ GwfUnchanged
  /\ UNCHANGED <<rho_bulk, l_saturation, model, soil_bulk_density,
                 soil_saturated_moisture, kd0, rho_kd, alpha_l, alpha_t, wmd,
                 reaction_rate, time_pty, reaction_pty, pty_eval,
                 darcy_velocity>>

\* the equation has a reaction term whose property is defined
\* (eq_flag & CS_EQUATION_REACTION, r_pty != NULL)
has_reaction == reaction_id >= 0

\* the equation has a diffusion term (eq_flag & CS_EQUATION_DIFFUSION)
has_diffusion == diffusivity # NULL

\* cs_property_def_by_func: one definition per soil zone, with the bulk
\* function and the cell-wise function
def_by_func(func, cw_func) == [s \in Soils |-> [func |-> func, cw_func |-> cw_func]]

\* lines 1308-1389, for a tracer without the precipitation model (the
\* setup of a precipitation tracer goes on with _add_precipitation)
cs_gwf_tracer_saturated_setup(tracer, th) ==
  /\ tpc = "terms"
  /\ IF tracer = NULL
       THEN /\ tpc' = "bft_error"
            /\ UNCHANGED <<l_saturation, time_pty, reaction_pty,
                           darcy_velocity>>
       ELSE /\ "CS_GWF_TRACER_PRECIPITATION" \notin model
            /\ darcy_velocity' = [r \in Ranks |-> NULL]
            /\ l_saturation' = th
            /\ time_pty' = def_by_func("_get_time_pty4std_sat_tracer",
                                       "_get_time_pty4std_sat_tracer_cw")
            /\ reaction_pty' =
                 IF has_reaction
                   THEN def_by_func("_get_reaction_pty4std_sat_tracer",
                                    "_get_reaction_pty4std_sat_tracer_cw")
                   ELSE reaction_pty
            /\ tpc' = "saturated"
  /\ call' = public_call("cs_gwf_tracer_saturated_setup", tracer, tpc')
  /\ GwfUnchanged
  /\ UNCHANGED <<rho_bulk, model, soil_bulk_density,
                 soil_saturated_moisture, kd0, rho_kd, alpha_l, alpha_t, wmd,
                 reaction_rate, diffusivity, reaction_id, pty_eval>>

\* variant: the unsaturated setup defines the properties by the functions
\* of the saturated model
cs_gwf_tracer_unsaturated_setup_sat(tracer, th) ==
  /\ tpc = "terms"
  /\ tracer # NULL
  /\ "CS_GWF_TRACER_PRECIPITATION" \notin model
  /\ darcy_velocity' = [r \in Ranks |-> NULL]
  /\ l_saturation' = th
  /\ time_pty' = def_by_func("_get_time_pty4std_sat_tracer",
                             "_get_time_pty4std_sat_tracer_cw")
  /\ reaction_pty' =
       IF has_reaction
         THEN def_by_func("_get_reaction_pty4std_sat_tracer",
                          "_get_reaction_pty4std_sat_tracer_cw")
         ELSE reaction_pty
  /\ tpc' = "unsaturated"
  /\ call' = public_call("cs_gwf_tracer_unsaturated_setup", tracer, tpc')
  /\ GwfUnchanged
  /\ UNCHANGED <<rho_bulk, model, soil_bulk_density,
                 soil_saturated_moisture, kd0, rho_kd, alpha_l, alpha_t, wmd,
                 reaction_rate, diffusivity, reaction_id, pty_eval>>

\* lines 1405-1484, for a tracer without the precipitation model
cs_gwf_tracer_unsaturated_setup(tracer, th) ==
  /\ tpc = "terms"
  /\ IF tracer = NULL
       THEN /\ tpc' = "bft_error"
            /\ UNCHANGED <<l_saturation, time_pty, reaction_pty,
                           darcy_velocity>>
       ELSE /\ "CS_GWF_TRACER_PRECIPITATION" \notin model
            /\ darcy_velocity' = [r \in Ranks |-> NULL]
            /\ l_saturation' = th
            /\ time_pty' = def_by_func("_get_time_pty4std_tracer",
                                       "_get_time_pty4std_tracer_cw")
            /\ reaction_pty' =
                 IF has_reaction
                   THEN def_by_func("_get_reaction_pty4std_tracer",
                                    "_get_reaction_pty4std_tracer_cw")
                   ELSE reaction_pty
            /\ tpc' = "unsaturated"
  /\ call' = public_call("cs_gwf_tracer_unsaturated_setup", tracer, tpc')
  /\ GwfUnchanged
  /\ UNCHANGED <<rho_bulk, model, soil_bulk_density,
                 soil_saturated_moisture, kd0, rho_kd, alpha_l, alpha_t, wmd,
                 reaction_rate, diffusivity, reaction_id, pty_eval>>

(***************************************************************************)
(* The coefficients of the unsteady term and of the reaction term          *)
(***************************************************************************)
\* variant: the output is always indexed by the cell
output_id_by_cell(dense_output, i, c_id) == c_id

\* lines 132, 234, 312, 423: the index written in result
output_id(dense_output, i, c_id) == IF dense_output THEN i ELSE c_id

\* lines 107-139
RECURSIVE _get_time_pty4std_sat_tracer(_, _, _, _, _, _)
_get_time_pty4std_sat_tracer(r, n_elts, elt_ids, dense_output, result, i) ==
  IF i >= n_elts THEN result
  ELSE LET c_id == IF elt_ids = NULL THEN i ELSE elt_ids[i]
           id == output_id(dense_output, i, c_id)
           soil_id == c2s(r)[c_id]
           saturated_moisture == soil_saturated_moisture[soil_id]
       IN  _get_time_pty4std_sat_tracer(r, n_elts, elt_ids, dense_output,
             [result EXCEPT ![id] = RAdd(saturated_moisture, rho_kd[soil_id])],
             i + 1)

\* lines 158-177
_get_time_pty4std_sat_tracer_cw(r, cm_c_id) ==
  LET soil_id == c2s(r)[cm_c_id]
      saturated_moisture == soil_saturated_moisture[soil_id]
  IN  RAdd(saturated_moisture, rho_kd[soil_id])

\* lines 197-237
RECURSIVE _get_time_pty4std_tracer(_, _, _, _, _, _)
_get_time_pty4std_tracer(r, n_elts, elt_ids, dense_output, result, i) ==
  LET theta == l_saturation[r]
  IN  IF i >= n_elts THEN result
      ELSE IF elt_ids = NULL
        THEN _get_time_pty4std_tracer(r, n_elts, elt_ids, dense_output,
               [result EXCEPT ![i] = RAdd(theta[i], rho_kd[c2s(r)[i]])], i + 1)
        ELSE LET c_id == elt_ids[i]
                 id == output_id(dense_output, i, c_id)
             IN  _get_time_pty4std_tracer(r, n_elts, elt_ids, dense_output,
                   [result EXCEPT ![id] = RAdd(theta[c_id], rho_kd[c2s(r)[c_id]])],
                   i + 1)

\* lines 250-266
_get_time_pty4std_tracer_cw(r, cm_c_id) ==
  RAdd(l_saturation[r][cm_c_id], rho_kd[c2s(r)[cm_c_id]])

\* lines 287-322
RECURSIVE _get_reaction_pty4std_sat_tracer(_, _, _, _, _, _)
_get_reaction_pty4std_sat_tracer(r, n_elts, elt_ids, dense_output, result, i) ==
  IF i >= n_elts THEN result
  ELSE LET c_id == IF elt_ids = NULL THEN i ELSE elt_ids[i]
           id == output_id(dense_output, i, c_id)
           s == c2s(r)[c_id]
           saturated_moisture == soil_saturated_moisture[s]
       IN  _get_reaction_pty4std_sat_tracer(r, n_elts, elt_ids, dense_output,
             [result EXCEPT ![id] =
                RMul(RAdd(saturated_moisture, rho_kd[s]), reaction_rate[s])],
             i + 1)

\* lines 338-357
_get_reaction_pty4std_sat_tracer_cw(r, cm_c_id) ==
  LET s == c2s(r)[cm_c_id]
      saturated_moisture == soil_saturated_moisture[s]
  IN  RMul(RAdd(saturated_moisture, rho_kd[s]), reaction_rate[s])

\* lines 377-429
RECURSIVE _get_reaction_pty4std_tracer(_, _, _, _, _, _)
_get_reaction_pty4std_tracer(r, n_elts, elt_ids, dense_output, result, i) ==
  LET theta == l_saturation[r]
  IN  IF i >= n_elts THEN result
      ELSE IF elt_ids = NULL
        THEN LET s == c2s(r)[i]
             IN  _get_reaction_pty4std_tracer(r, n_elts, elt_ids, dense_output,
                   [result EXCEPT ![i] =
                      RMul(RAdd(theta[i], rho_kd[s]), reaction_rate[s])],
                   i + 1)
        ELSE LET c_id == elt_ids[i]
                 s == c2s(r)[c_id]
                 id == output_id(dense_output, i, c_id)
             IN  _get_reaction_pty4std_tracer(r, n_elts, elt_ids, dense_output,
                   [result EXCEPT ![id] =
                      RMul(RAdd(theta[c_id], rho_kd[s]), reaction_rate[s])],
                   i + 1)

\* lines 439-457
_get_reaction_pty4std_tracer_cw(r, cm_c_id) ==
  LET s == c2s(r)[cm_c_id]
  IN  RMul(RAdd(l_saturation[r][cm_c_id], rho_kd[s]), reaction_rate[s])

\* the call of a bulk function (cs_xdef_eval_t) through its pointer
call_func(func, r, n_elts, elt_ids, dense_output, result) ==
  CASE func = "_get_time_pty4std_sat_tracer" ->
         _get_time_pty4std_sat_tracer(r, n_elts, elt_ids, dense_output, result, 0)
    [] func = "_get_time_pty4std_tracer" ->
         _get_time_pty4std_tracer(r, n_elts, elt_ids, dense_output, result, 0)
    [] func = "_get_reaction_pty4std_sat_tracer" ->
         _get_reaction_pty4std_sat_tracer(r, n_elts, elt_ids, dense_output, result, 0)
    [] func = "_get_reaction_pty4std_tracer" ->
         _get_reaction_pty4std_tracer(r, n_elts, elt_ids, dense_output, result, 0)

\* the call of a cell-wise function (cs_xdef_cell_eval_cw_t) through its pointer
call_cw_func(cw_func, r, cm_c_id) ==
  CASE cw_func = "_get_time_pty4std_sat_tracer_cw" ->
         _get_time_pty4std_sat_tracer_cw(r, cm_c_id)
    [] cw_func = "_get_time_pty4std_tracer_cw" ->
         _get_time_pty4std_tracer_cw(r, cm_c_id)
    [] cw_func = "_get_reaction_pty4std_sat_tracer_cw" ->
         _get_reaction_pty4std_sat_tracer_cw(r, cm_c_id)
    [] cw_func = "_get_reaction_pty4std_tracer_cw" ->
         _get_reaction_pty4std_tracer_cw(r, cm_c_id)

\* the definitions of a property of the tracer equation
pty_defs(pty) == IF pty = "time" THEN time_pty ELSE reaction_pty

\* the lists of cells a bulk function is called with on rank r:
\* elt_ids = NULL for the n_elts first cells, or a list of distinct cells
EltLists(r) ==
  {[n_elts |-> n, elt_ids |-> NULL] : n \in 1..n_cells[r]} \cup
  {[n_elts |-> n, elt_ids |-> l] : <<n, l>> \in
     UNION {{<<n, l>> : l \in {f \in [0..(n - 1) -> Cells(r)] :
                                 \A i, j \in DOMAIN f : f[i] = f[j] => i = j}} :
            n \in 1..n_cells[r]}}

\* everything but the record of the last evaluation
EvalUnchanged ==
  /\ GwfUnchanged
  /\ UNCHANGED <<rho_bulk, l_saturation, model, soil_bulk_density,
                 soil_saturated_moisture, kd0, rho_kd, alpha_l, alpha_t, wmd,
                 reaction_rate, diffusivity, reaction_id, time_pty,
                 reaction_pty, tpc, darcy_velocity, call>>

\* a property of the equation is evaluated on a list of cells of rank r, by
\* the bulk function of the definition of soil s, in an array of n_elts
\* (dense output) or n_cells values
EvalBulk(r, pty, s, list, dense_output) ==
  /\ tpc \in {"saturated", "unsaturated"}
  /\ pty_defs(pty) # NULL
  /\ LET size == IF dense_output THEN list.n_elts ELSE n_cells[r]
         result == [i \in 0..(size - 1) |-> NULL]
     IN  pty_eval' = [kind |-> "bulk", pty |-> pty, r |-> r,
                      n_elts |-> list.n_elts, elt_ids |-> list.elt_ids,
                      dense_output |-> dense_output,
                      result |-> call_func(pty_defs(pty)[s].func, r, list.n_elts,
                                           list.elt_ids, dense_output, result)]
  /\ EvalUnchanged

\* a property of the equation is evaluated on the cell mesh of cell c_id
EvalCw(r, pty, cm_c_id) ==
  /\ tpc \in {"saturated", "unsaturated"}
  /\ pty_defs(pty) # NULL
  /\ pty_eval' = [kind |-> "cw", pty |-> pty, r |-> r, c_id |-> cm_c_id,
                  result |-> call_cw_func(pty_defs(pty)[c2s(r)[cm_c_id]].cw_func,
                                          r, cm_c_id)]
  /\ EvalUnchanged

(***************************************************************************)
(* Specification of the parameters, the setup and the evaluation of the    *)
(* properties of a tracer without precipitation                            *)
(***************************************************************************)
KdSet == {R(0), R(1)}
RateSet == {R(0), R(2)}
\* the saturated moisture of the two soils
SoilMoisture == [s \in Soils |-> IF s = 0 THEN <<1, 4>> ELSE <<3, 4>>]

\* cs_gwf_tracer_init: the arrays of the context are allocated, not set
TracerInit ==
  /\ model = {}
  /\ soil_bulk_density \in [Soils -> RhoSet]
  /\ soil_saturated_moisture = SoilMoisture
  /\ kd0 = [s \in Soils |-> NULL]
  /\ rho_kd = [s \in Soils |-> NULL]
  /\ alpha_l = [s \in Soils |-> NULL]
  /\ alpha_t = [s \in Soils |-> NULL]
  /\ wmd = [s \in Soils |-> NULL]
  /\ reaction_rate = [s \in Soils |-> NULL]
  /\ diffusivity = NULL
  /\ reaction_id = -1
  /\ time_pty = NULL
  /\ reaction_pty = NULL
  /\ pty_eval = NULL
  /\ darcy_velocity = NULL
  /\ tpc = "init"
  /\ call = NULL

\* the members of the precipitation engine of a tracer without precipitation
GwfIdle ==
  /\ space_scheme = "CS_SPACE_SCHEME_CDOVB"
  /\ conc_w_star = NULL
  /\ rho_bulk = [s \in Soils |-> NULL]
  /\ l_saturation = [r \in Ranks |-> NULL]
  /\ c_w = [r \in Ranks |-> [v \in Vertices(r) |-> R(0)]]
  /\ conc_precip = [r \in Ranks |-> NULL]
  /\ conc_satura = [r \in Ranks |-> NULL]
  /\ precip_field = NULL
  /\ c_w_save = [r \in Ranks |-> NULL]
  /\ c_p_start = [r \in Ranks |-> NULL]
  /\ c_w_local = [r \in Ranks |-> NULL]
  /\ pc = [r \in Ranks |-> "no_precipitation"]
  /\ n_calls = 0

\* the liquid saturations handed to the setup (those of rank 1 vary)
SaturationFields ==
  {th \in [Ranks -> UNION {[Cells(r) -> ThetaSet] : r \in Ranks}] :
     /\ \A r \in Ranks : DOMAIN th[r] = Cells(r)
     /\ \A c \in Cells(2) : th[2][c] = <<1, 2>>}

InitPty == GwfIdle /\ BuildIdle /\ TracerInit /\ NavstoIdle

NextPty ==
  \/ \E sn \in {NULL_NAME, "soil0", "soil1", "soil9"}, kd \in KdSet, rr \in RateSet :
       cs_gwf_set_main_tracer_param(TheTracer, sn, R(0), R(0), R(0), kd, rr)
  \/ cs_gwf_tracer_add_terms(TheTracer)
  \/ \E th \in SaturationFields : cs_gwf_tracer_saturated_setup(TheTracer, th)
  \/ \E th \in SaturationFields : cs_gwf_tracer_unsaturated_setup(TheTracer, th)
  \/ \E r \in Ranks, pty \in {"time", "reaction"}, s \in Soils,
         dense_output \in BOOLEAN :
       \E list \in EltLists(r) : EvalBulk(r, pty, s, list, dense_output)
  \/ \E r \in Ranks, pty \in {"time", "reaction"} :
       \E c \in Cells(r) : EvalCw(r, pty, c)

SpecPty == InitPty /\ [][NextPty]_vars

(***************************************************************************)
(* Properties of the coefficients                                          *)
(***************************************************************************)
\* the cells of the last evaluation with the value stored for each:
\* <<cell, value>>; a bulk evaluation stores the value of the i-th cell of
\* its list at index i (dense output) or at the index of the cell
Evaluated ==
  IF pty_eval = NULL THEN {}
  ELSE IF pty_eval.kind = "cw" THEN {<<pty_eval.c_id, pty_eval.result>>}
  ELSE {<<IF pty_eval.elt_ids = NULL THEN i ELSE pty_eval.elt_ids[i],
          pty_eval.result[IF pty_eval.dense_output THEN i
                          ELSE IF pty_eval.elt_ids = NULL THEN i
                          ELSE pty_eval.elt_ids[i]]>> :
          i \in 0..(pty_eval.n_elts - 1)}

\* C12: for each family of coefficients, a bulk evaluation on any list of
\* cells (explicit or implicit, dense or not) stores for each cell c of the
\* list, at the position of c in the list when the output is dense and at
\* index c otherwise, the value the cell-wise function returns for c.
C12_BulkCellConsistency ==
  (pty_eval # NULL /\ pty_eval.kind = "bulk") =>
    \A e \in Evaluated :
      e[2] = call_cw_func(pty_defs(pty_eval.pty)[c2s(pty_eval.r)[e[1]]].cw_func,
                          pty_eval.r, e[1])

\* C12 witness: a dense evaluation of the reaction coefficient of the
\* general model on a list whose first cell is not cell 0.
C12_Witness ==
  /\ pty_eval # NULL /\ pty_eval.kind = "bulk"
  /\ pty_eval.pty = "reaction" /\ tpc = "unsaturated"
  /\ pty_eval.dense_output /\ pty_eval.elt_ids # NULL
  /\ pty_eval.elt_ids[0] = 1
  /\ RLt(R(0), pty_eval.result[0])

\* the coefficient of the unsteady term of cell c of rank r
TimeCoefficient(r, c) ==
  IF tpc = "saturated"
    THEN RAdd(soil_saturated_moisture[SoilOf(r, c)], rho_kd[SoilOf(r, c)])
    ELSE RAdd(l_saturation[r][c], rho_kd[SoilOf(r, c)])

\* C13: after the saturated setup the time property of a cell is the
\* saturated moisture of its soil plus rho_kd of its soil, after the
\* unsaturated setup its liquid saturation plus rho_kd of its soil; the
\* reaction property is that coefficient times the reaction rate of the soil.
C13_CoefficientValues ==
  tpc \in {"saturated", "unsaturated"} =>
    \A e \in Evaluated :
      e[2] = IF pty_eval.pty = "time"
               THEN TimeCoefficient(pty_eval.r, e[1])
               ELSE RMul(TimeCoefficient(pty_eval.r, e[1]),
                         reaction_rate[SoilOf(pty_eval.r, e[1])])

\* C13 witness: the unsaturated model, a cell whose liquid saturation is not
\* the saturated moisture of its soil, a reaction coefficient evaluated.
C13_Witness ==
  /\ tpc = "unsaturated" /\ pty_eval # NULL /\ pty_eval.pty = "reaction"
  /\ \E e \in Evaluated :
       /\ RLt(R(0), e[2])
       /\ l_saturation[pty_eval.r][e[1]]
            # soil_saturated_moisture[SoilOf(pty_eval.r, e[1])]

(***************************************************************************)
(* The dispersion tensor: _update_sat_diff_pty and _update_diff_pty        *)
(***************************************************************************)
\* sqrt of a rational whose numerator and denominator are perfect squares
sqrt(x) ==
  <<CHOOSE k \in 0..x[1] : k * k = x[1], CHOOSE k \in 0..x[2] : k * k = x[2]>>

\* cs_math_zero_threshold: a positive stand-in for the smallest normalized
\* float; what matters is which velocities have a norm above it
cs_math_zero_threshold == <<1, 2>>

\* the Darcy velocities of a cell: zero, a unit vector along x, a vector
\* with three components of both signs, a vector below the threshold
VelocitySet ==
  {<<R(0), R(0), R(0)>>, <<R(1), R(0), R(0)>>, <<R(-1), R(2), R(2)>>,
   <<R(0), R(0), <<1, 4>>>>}

\* variant: the division by the norm is done whatever the norm
delta_of_unguarded(p_al, p_at, vnorm) ==
  IF vnorm = R(0) THEN R(0) ELSE RDiv(RSub(p_al, p_at), vnorm)

\* lines 518-520 and 605-607
delta_of(p_al, p_at, vnorm) ==
  IF RLt(cs_math_zero_threshold, vnorm) THEN RDiv(RSub(p_al, p_at), vnorm)
  ELSE R(0)

\* variant: the transversal dispersion is left out of the diagonal
coef1_of_no_at(p_wmd, theta, p_at, vnorm) == RMul(p_wmd, theta)

\* lines 516 and 603
coef1_of(p_wmd, theta, p_at, vnorm) ==
  RAdd(RMul(p_wmd, theta), RMul(p_at, vnorm))

\* variant: the entry below the diagonal is not copied from the one above
lower_entry_not_copied(_r, ki, kj) == _r

\* lines 535 and 622: _r[3*kj+ki] = _r[3*ki+kj]
lower_entry(_r, ki, kj) == [_r EXCEPT ![3 * kj + ki] = _r[3 * ki + kj]]

\* lines 533-536 and 620-623: the loop on kj
RECURSIVE extra_diagonal(_, _, _, _, _)
extra_diagonal(_r, dcv, v, ki, kj) ==
  IF kj >= 3 THEN _r
  ELSE extra_diagonal(
         lower_entry([_r EXCEPT ![3 * ki + kj] = RMul(dcv[ki + 1], v[kj + 1])],
                     ki, kj),
         dcv, v, ki, kj + 1)

\* lines 525-538 and 612-625: the loop on ki
RECURSIVE tensor_rows(_, _, _, _, _, _, _)
tensor_rows(_r, coef1, delta, v2, dcv, v, ki) ==
  IF ki >= 3 THEN _r
  ELSE tensor_rows(
         extra_diagonal([_r EXCEPT ![3 * ki + ki] =
                           RAdd(coef1, RMul(delta, v2[ki + 1]))],
                        dcv, v, ki, ki + 1),
         coef1, delta, v2, dcv, v, ki + 1)

\* lines 512-538 and 599-625: the tensor of one cell (_r = values + 9*c_id)
cell_tensor(_r, p_wmd, p_at, p_al, theta, v) ==
  LET v2 == <<RMul(v[1], v[1]), RMul(v[2], v[2]), RMul(v[3], v[3])>>
      vnorm == sqrt(RAdd(RAdd(v2[1], v2[2]), v2[3]))
      coef1 == coef1_of(p_wmd, theta, p_at, vnorm)
      delta == delta_of(p_al, p_at, vnorm)
      dcv == <<RMul(delta, v[1]), RMul(delta, v[2]), RMul(delta, v[3])>>
  IN  tensor_rows(_r, coef1, delta, v2, dcv, v, 0)

\* lines 509-540 and 596-627: the loop on the cells of a soil zone;
\* theta_of[c_id] is the moisture used for cell c_id
RECURSIVE diff_cells(_, _, _, _, _, _, _)
diff_cells(values, r, soil_id, z, theta_of, velocity, i) ==
  IF i >= z.n_elts THEN values
  ELSE LET c_id == IF z.elt_ids = NULL THEN i ELSE z.elt_ids[i]
       IN  diff_cells(
             [values EXCEPT ![c_id] =
                cell_tensor(values[c_id], wmd[soil_id], alpha_t[soil_id],
                            alpha_l[soil_id], theta_of[c_id], velocity[c_id])],
             r, soil_id, z, theta_of, velocity, i + 1)

\* lines 499-542 and 587-629: the loop on soils
RECURSIVE diff_soils(_, _, _, _, _)
diff_soils(values, r, theta_of, velocity, soil_id) ==
  IF soil_id >= n_soils THEN values
  ELSE diff_soils(diff_cells(values, r, soil_id, zone[r][soil_id],
                             theta_of[soil_id], velocity, 0),
                  r, theta_of, velocity, soil_id + 1)

\* variant: the saturated update reads the liquid saturation of the cells
_update_sat_diff_pty_l_saturation(r, velocity) ==
  IF diffusivity = NULL THEN diffusivity
  ELSE [diffusivity EXCEPT ![r] =
          diff_soils(diffusivity[r], r,
                     [s \in Soils |-> l_saturation[r]], velocity, 0)]

\* lines 475-543
_update_sat_diff_pty(r, velocity) ==
  IF diffusivity = NULL THEN diffusivity
  ELSE [diffusivity EXCEPT ![r] =
          diff_soils(diffusivity[r], r,
                     [s \in Soils |-> [c \in Cells(r) |-> soil_saturated_moisture[s]]],
                     velocity, 0)]

\* lines 562-630
_update_diff_pty(r, velocity) ==
  IF diffusivity = NULL THEN diffusivity
  ELSE [diffusivity EXCEPT ![r] =
          diff_soils(diffusivity[r], r,
                     [s \in Soils |-> l_saturation[r]], velocity, 0)]

\* tracer->update_diff_tensor(tracer, ...) on rank r, the Darcy velocity of
\* the cells of the rank being velocity: _update_diff_pty since
\* cs_gwf_tracer_init (line 1027), _update_sat_diff_pty once the saturated
\* setup has found a diffusion term (line 1353)
UpdateDiffTensor(r, velocity) ==
  /\ tpc \in {"saturated", "unsaturated"}
  /\ darcy_velocity' = [darcy_velocity EXCEPT ![r] = velocity]
  /\ diffusivity' = IF tpc = "saturated" /\ has_diffusion
                      THEN _update_sat_diff_pty(r, velocity)
                      ELSE _update_diff_pty(r, velocity)
  /\ GwfUnchanged
  /\ UNCHANGED <<rho_bulk, l_saturation, model, soil_bulk_density,
                 soil_saturated_moisture, kd0, rho_kd, alpha_l, alpha_t, wmd,
                 reaction_rate, reaction_id, time_pty, reaction_pty, pty_eval,
                 tpc, call>>

(***************************************************************************)
(* Specification of the update of the dispersion tensor                    *)
(***************************************************************************)
WmdSet == {R(0), R(1)}
AlphaLSet == {R(0), R(3)}
AlphaTSet == {R(0), R(1)}

\* the Darcy velocities of the cells of rank r: at most one cell moves
VelocityFields(r) ==
  {vel \in [Cells(r) -> VelocitySet] :
     \A c, d \in Cells(r) :
       (vel[c] # <<R(0), R(0), R(0)>> /\ vel[d] # <<R(0), R(0), R(0)>>) => c = d}

\* the liquid saturations handed to the setup: that of cell 0 of rank 1 varies
DiffSaturationFields == {th \in SaturationFields : th[1][1] = <<1, 2>>}

InitDiff ==
  /\ GwfIdle /\ BuildIdle /\ TracerInit /\ NavstoIdle
  /\ soil_bulk_density = [s \in Soils |-> R(1)]

NextDiff ==
  \/ \E sn \in {NULL_NAME, "soil1"}, w \in WmdSet, al \in AlphaLSet,
         at \in AlphaTSet :
       cs_gwf_set_main_tracer_param(TheTracer, sn, w, al, at, R(0), R(0))
  \/ cs_gwf_tracer_add_terms(TheTracer)
  \/ \E th \in DiffSaturationFields :
       cs_gwf_tracer_saturated_setup(TheTracer, th)
  \/ \E th \in DiffSaturationFields :
       cs_gwf_tracer_unsaturated_setup(TheTracer, th)
  \/ \E r \in Ranks : \E velocity \in VelocityFields(r) :
       UpdateDiffTensor(r, velocity)

SpecDiff == InitDiff /\ [][NextDiff]_vars

(***************************************************************************)
(* Properties of the dispersion tensor                                     *)
(***************************************************************************)
\* the tensors of rank r have been updated
DiffUpdated(r) ==
  diffusivity # NULL /\ darcy_velocity # NULL /\ darcy_velocity[r] # NULL

\* entry (i, j) of the tensor of cell c of rank r
T(r, c, i, j) == diffusivity[r][c][3 * i + j]

\* the moisture the update of the current model uses for cell c
ThetaOf(r, c) ==
  IF tpc = "saturated" THEN soil_saturated_moisture[SoilOf(r, c)]
  ELSE l_saturation[r][c]

\* wmd * theta of cell c
WmdTheta(r, c) == RMul(wmd[SoilOf(r, c)], ThetaOf(r, c))

\* |v| of cell c
VNorm(r, c) ==
  LET v == darcy_velocity[r][c]
  IN  sqrt(RAdd(RAdd(RMul(v[1], v[1]), RMul(v[2], v[2])), RMul(v[3], v[3])))

\* C14: after either update, the tensor stored for every cell of every
\* soil zone satisfies T[i][j] = T[j][i] for all i, j in 0..2.
C14_TensorSymmetry ==
  \A r \in Ranks : DiffUpdated(r) =>
    \A c \in Cells(r) : \A i, j \in 0..2 :
      T(r, c, i, j) # NULL /\ T(r, c, i, j) = T(r, c, j, i)

\* C14 witness: an updated tensor with an entry off the diagonal that is
\* not zero.
C14_Witness ==
  \E r \in Ranks : DiffUpdated(r) /\
    \E c \in Cells(r) : T(r, c, 1, 2) # R(0) /\ T(r, c, 1, 2) = T(r, c, 2, 1)

\* C15: for a cell whose Darcy velocity is zero the update stores wmd*theta
\* on the diagonal (theta: the saturated moisture of the soil in the
\* saturated variant, the liquid saturation of the cell in the general
\* one) and 0 off the diagonal.
C15_ZeroVelocity ==
  \A r \in Ranks : DiffUpdated(r) =>
    \A c \in Cells(r) : darcy_velocity[r][c] = <<R(0), R(0), R(0)>> =>
      \A i, j \in 0..2 :
        T(r, c, i, j) = IF i = j THEN WmdTheta(r, c) ELSE R(0)

\* C15 witness: a cell at rest with a molecular diffusion, in the
\* saturated variant, in a soil whose dispersivities are not zero.
C15_Witness ==
  \E r \in Ranks : DiffUpdated(r) /\ tpc = "saturated" /\
    \E c \in Cells(r) :
      /\ darcy_velocity[r][c] = <<R(0), R(0), R(0)>>
      /\ RLt(R(0), T(r, c, 0, 0))
      /\ RLt(R(0), alpha_t[SoilOf(r, c)])

\* delta of cell c as the claim states it
Delta(r, c) ==
  IF RLt(cs_math_zero_threshold, VNorm(r, c))
    THEN RDiv(RSub(alpha_l[SoilOf(r, c)], alpha_t[SoilOf(r, c)]), VNorm(r, c))
    ELSE R(0)

\* C16: for every cell the update stores
\* T[i][i] = wmd*theta + alpha_t*|v| + delta*v_i^2 and
\* T[i][j] = delta*v_i*v_j (i # j), delta = (alpha_l - alpha_t)/|v| when
\* |v| is above the zero threshold and 0 otherwise; v = (1,0,0) gives the
\* diagonal (wmd*theta + alpha_l, wmd*theta + alpha_t, wmd*theta + alpha_t)
\* and zeros off the diagonal.
C16_TensorFormula ==
  \A r \in Ranks : DiffUpdated(r) =>
    \A c \in Cells(r) :
      LET v == darcy_velocity[r][c]
          s == SoilOf(r, c)
      IN  /\ \A i, j \in 0..2 :
               T(r, c, i, j) =
                 IF i = j
                   THEN RAdd(RAdd(WmdTheta(r, c), RMul(alpha_t[s], VNorm(r, c))),
                             RMul(Delta(r, c), RMul(v[i + 1], v[i + 1])))
                   ELSE RMul(Delta(r, c), RMul(v[i + 1], v[j + 1]))
          /\ v = <<R(1), R(0), R(0)>> =>
               \A i, j \in 0..2 :
                 T(r, c, i, j) =
                   IF i # j THEN R(0)
                   ELSE IF i = 0 THEN RAdd(WmdTheta(r, c), alpha_l[s])
                   ELSE RAdd(WmdTheta(r, c), alpha_t[s])

\* C16 witness: a velocity that is not zero and is below the threshold, in
\* a soil whose two dispersivities differ; and a cell with v = (1,0,0).
C16_Witness ==
  \E r \in Ranks : DiffUpdated(r) /\
    \E c \in Cells(r) :
      /\ darcy_velocity[r][c] = <<R(0), R(0), <<1, 4>>>>
      /\ alpha_l[SoilOf(r, c)] # alpha_t[SoilOf(r, c)]
      /\ RLt(R(0), T(r, c, 2, 2))
      /\ \E q \in Ranks : DiffUpdated(q) /\
           \E d \in Cells(q) :
             /\ darcy_velocity[q][d] = <<R(1), R(0), R(0)>>
             /\ RLt(T(q, d, 1, 1), T(q, d, 0, 0))

\* ---------------------------------------------------------------------------
\* Cell-wise building of the Navier-Stokes system with CDO face-based
\* schemes (cs_cdofb_navsto.h)
\* ---------------------------------------------------------------------------

\* everything outside the cell-wise building
NavstoUnchanged == UNCHANGED <<gwf_vars, tc_vars, ndebug, gui_vars, mesh_vars>>

\* largest number of faces of a cell of the model
MaxFaces == 6

\* the array handed to the divergence has room after the 3*n_fc entries of
\* the cell (it is allocated once for the largest cell)
DivSize == 3 * MaxFaces + 3

\* a vector of rationals times a rational
RScale(a, v) == <<RMul(a, v[1]), RMul(a, v[2]), RMul(a, v[3])>>

\* the unit vectors of the axes
e_x == <<R(1), R(0), R(0)>>
e_y == <<R(0), R(1), R(0)>>
e_z == <<R(0), R(0), R(1)>>

\* cs_quant_t: measure and unit normal of a face
cs_quant_t(meas, unitv) == [meas |-> meas, unitv |-> unitv]

\* The faces of a closed cell, each with its area and its OUTWARD unit
\* normal: an axis-aligned box of extents a, b, c
BoxFaces(a, b, c) ==
  <<cs_quant_t(R(b * c), RScale(R(-1), e_x)), cs_quant_t(R(b * c), e_x),
    cs_quant_t(R(a * c), RScale(R(-1), e_y)), cs_quant_t(R(a * c), e_y),
    cs_quant_t(R(a * b), RScale(R(-1), e_z)), cs_quant_t(R(a * b), e_z)>>

\* a prism of height h on the right triangle of legs 4 (along x) and 3
\* (along y): the slanted face has area 5h and normal (3/5, 4/5, 0)
PrismFaces(h) ==
  <<cs_quant_t(R(3 * h), RScale(R(-1), e_x)),
    cs_quant_t(R(4 * h), RScale(R(-1), e_y)),
    cs_quant_t(R(5 * h), <<Rat(3, 5), Rat(4, 5), R(0)>>),
    cs_quant_t(R(6), RScale(R(-1), e_z)), cs_quant_t(R(6), e_z)>>

\* the orientations of the faces of a cell: f_sgn[f] = 1 when the normal
\* stored for the face points out of the cell, -1 when it points inwards
Orientations ==
  { [f \in 0..(MaxFaces - 1) |-> 1],
    [f \in 0..(MaxFaces - 1) |-> IF f % 2 = 0 THEN -1 ELSE 1],
    [f \in 0..(MaxFaces - 1) |-> IF f \in {2, 3} THEN -1 ELSE 1],
    [f \in 0..(MaxFaces - 1) |-> -1] }

\* The boundary faces of a cell: bf_ids[f] is the id of face f among the
\* boundary faces of the mesh (cm->f_ids[f] - cm->bface_shift), negative for
\* an interior face
NBoundaryFaces == 2

BoundaryFaceIds ==
  { [f \in 0..(MaxFaces - 1) |-> -1],
    [f \in 0..(MaxFaces - 1) |-> IF f = 3 THEN 0 ELSE -1],
    [f \in 0..(MaxFaces - 1) |-> IF f = 3 THEN 0 ELSE IF f = 0 THEN 1 ELSE -1],
    [f \in 0..(MaxFaces - 1) |-> IF f = 3 THEN 1 ELSE IF f = 4 THEN 0 ELSE -1] }

\* cs_cell_mesh_t: the view of a closed cell whose faces are stored with the
\* orientation sgn (the stored normal is the outward one times f_sgn)
cs_cell_mesh_t(faces, sgn, bf_ids) ==
  [n_fc   |-> Len(faces),
   face   |-> [f \in 0..(Len(faces) - 1) |->
                 cs_quant_t(faces[f + 1].meas,
                            RScale(R(sgn[f]), faces[f + 1].unitv))],
   f_sgn  |-> [f \in 0..(Len(faces) - 1) |-> sgn[f]],
   bf_ids |-> [f \in 0..(Len(faces) - 1) |-> bf_ids[f]]]

ClosedCells ==
  {BoxFaces(1, 1, 1), BoxFaces(1, 2, 3), BoxFaces(2, 1, 2), PrismFaces(1),
   PrismFaces(2)}

CellMeshes ==
  { cs_cell_mesh_t(faces, sgn, bf_ids) :
      faces \in ClosedCells, sgn \in Orientations, bf_ids \in BoundaryFaceIds }

\* variant: the entries are stored component by component
div_index_by_component(f, k, n_fc) == n_fc * k + f
\* position of component k of face f: _div_f = div + 3*f
div_index(f, k, n_fc) == 3 * f + k

\* variant: the orientation of the face is not taken into account
i_f_of_unsigned(f_sgn, meas) == meas
\* i_f = cm->f_sgn[f] * pfq.meas
i_f_of(f_sgn, meas) == RMul(R(f_sgn), meas)

\* the loop on the faces, from face f on
RECURSIVE divergence_vect_loop(_, _, _)
divergence_vect_loop(c, d, f) ==
  IF f >= c.n_fc THEN d
  ELSE
    LET pfq == c.face[f]
        i_f == i_f_of(c.f_sgn[f], pfq.meas)
        d0  == [d  EXCEPT ![div_index(f, 0, c.n_fc)] = RMul(i_f, pfq.unitv[1])]
        d1  == [d0 EXCEPT ![div_index(f, 1, c.n_fc)] = RMul(i_f, pfq.unitv[2])]
        d2  == [d1 EXCEPT ![div_index(f, 2, c.n_fc)] = RMul(i_f, pfq.unitv[3])]
    IN  divergence_vect_loop(c, d2, f + 1)

\* cs_cdofb_navsto_divergence_vect(cm, div)
cs_cdofb_navsto_divergence_vect ==
  /\ cm # NULL
  /\ \A i \in 0..(DivSize - 1) : div[i] = NULL
  /\ div' = divergence_vect_loop(cm, div, 0)
  /\ UNCHANGED <<cm, nsb, bc, t_eval>>
  /\ NavstoUnchanged


\* cs_boundary_type_t: a boundary type is a set of flags
CS_BOUNDARY_UNDEFINED == {}
BoundaryTypes ==
  { {"CS_BOUNDARY_WALL"},
    {"CS_BOUNDARY_INLET", "CS_BOUNDARY_IMPOSED_P"},
    {"CS_BOUNDARY_OUTLET", "CS_BOUNDARY_IMPOSED_P"} }

\* the times of evaluation and the prescribed pressures of the model
TimeSet == {0, 1}
PressureDefs ==
  { [t \in TimeSet |-> R(101325)],
    [t \in TimeSet |-> IF t = 0 THEN R(5) ELSE R(101325)] }

\* the boundary types of all boundary faces (bf_type) and the definitions of
\* the pressure boundary conditions (pr_bc)
BoundaryConditions ==
  [bf_type : [0..(NBoundaryFaces - 1) -> BoundaryTypes],
   pr_bc   : [0..(NBoundaryFaces - 1) -> PressureDefs]]

\* cs_cdofb_navsto_create_builder: no face has a type or a pressure value yet
cs_cdofb_navsto_create_builder ==
  [bf_type         |-> [f \in 0..(MaxFaces - 1) |-> CS_BOUNDARY_UNDEFINED],
   pressure_bc_val |-> [f \in 0..(MaxFaces - 1) |-> NULL]]

\* face f of the cell is a boundary face
is_bface(c, f) == f < c.n_fc /\ c.bf_ids[f] >= 0

\* variant: only the faces with an imposed pressure get their type
typed_face_imposed_p(c, f) ==
  is_bface(c, f) /\ "CS_BOUNDARY_IMPOSED_P" \in bc.bf_type[c.bf_ids[f]]
\* the faces whose boundary type is resolved: every boundary face of the cell
typed_face(c, f) == is_bface(c, f)

\* the faces with a pressure to evaluate: the Dirichlet-pressure faces
pressure_face(c, f) ==
  is_bface(c, f) /\ "CS_BOUNDARY_IMPOSED_P" \in bc.bf_type[c.bf_ids[f]]

\* cs_cdofb_navsto_define_builder(t_eval, nsp, cm, csys, pr_bc, bf_type, nsb).
\* The value of a boundary face without imposed pressure is either left as
\* it is or set to 0 (zero_others).
cs_cdofb_navsto_define_builder(zero_others) ==
  /\ cm # NULL
  /\ nsb = cs_cdofb_navsto_create_builder
  /\ nsb' =
       [bf_type |->
          [f \in 0..(MaxFaces - 1) |->
             IF typed_face(cm, f) THEN bc.bf_type[cm.bf_ids[f]]
             ELSE nsb.bf_type[f]],
        pressure_bc_val |->
          [f \in 0..(MaxFaces - 1) |->
             IF pressure_face(cm, f) THEN bc.pr_bc[cm.bf_ids[f]][t_eval]
             ELSE IF is_bface(cm, f) /\ zero_others THEN R(0)
             ELSE nsb.pressure_bc_val[f]]]
  /\ UNCHANGED <<cm, div, bc, t_eval>>
  /\ NavstoUnchanged

InitNavsto ==
  /\ GwfIdle /\ BuildIdle /\ TracerIdle /\ GuiIdle /\ MeshIdle
  /\ cm \in CellMeshes
  /\ div = [i \in 0..(DivSize - 1) |-> NULL]
  /\ nsb = cs_cdofb_navsto_create_builder
  /\ bc \in BoundaryConditions
  /\ t_eval \in TimeSet

NextNavsto ==
  \/ cs_cdofb_navsto_divergence_vect
  \/ \E zero_others \in BOOLEAN : cs_cdofb_navsto_define_builder(zero_others)

SpecNavsto == InitNavsto /\ [][NextNavsto]_vars


\* the divergence of the cell has been computed
DivComputed == cm # NULL /\ \E i \in 0..(DivSize - 1) : div[i] # NULL

\* C17: cs_cdofb_navsto_divergence_vect writes, for every face f of the cell
\* and k = 0, 1, 2, div[3f+k] = f_sgn[f] * meas(f) * unitv(f)[k] (face by
\* face, not divided by the volume of the cell) and writes nothing outside
\* div[0..3*n_fc-1].
C17_DivergenceVect ==
  DivComputed =>
    /\ \A f \in 0..(cm.n_fc - 1) : \A k \in 0..2 :
         div[3 * f + k] =
           RMul(RMul(R(cm.f_sgn[f]), cm.face[f].meas), cm.face[f].unitv[k + 1])
    /\ \A i \in (3 * cm.n_fc)..(DivSize - 1) : div[i] = NULL

\* the divergence of a 5-face cell with an inward-stored slanted face
C17_Witness ==
  /\ DivComputed
  /\ cm.n_fc = 5
  /\ cm.f_sgn[2] = -1
  /\ div[6] = R(3) /\ div[7] = R(4) /\ div[8] = R(0)
  /\ div[15] = NULL

\* sum over the faces of the cell of component k of the divergence
RECURSIVE DivSum(_, _)
DivSum(k, f) ==
  IF f < 0 THEN R(0) ELSE RAdd(div[3 * f + k], DivSum(k, f - 1))

\* C18: for every closed cell (faces outward through f_sgn), the three
\* component sums over all faces of the computed divergence are zero.
C18_GaussIdentity ==
  DivComputed => \A k \in 0..2 : DivSum(k, cm.n_fc - 1) = R(0)

\* the divergence of a box with faces stored inwards, and of a prism
C18_Witness ==
  /\ DivComputed
  /\ cm.n_fc = 6
  /\ cm.f_sgn[0] = -1 /\ cm.f_sgn[1] = 1
  /\ div[0] # R(0) /\ div[3] = RSub(R(0), div[0])
  /\ cm.face[0].meas # cm.face[2].meas


\* the builder of the cell has been defined
BuilderDefined == cm # NULL /\ nsb # cs_cdofb_navsto_create_builder

\* face f of the cell is a boundary face tagged Dirichlet-pressure
DirichletPressure(f) ==
  /\ cm.bf_ids[f] >= 0
  /\ "CS_BOUNDARY_IMPOSED_P" \in bc.bf_type[cm.bf_ids[f]]

\* a Dirichlet-pressure face has its type and its pressure at t_eval
DirichletFaceSet(f) ==
  /\ nsb.bf_type[f] = bc.bf_type[cm.bf_ids[f]]
  /\ nsb.pressure_bc_val[f] = bc.pr_bc[cm.bf_ids[f]][t_eval]

\* the entries of face f are the ones of a new builder
Untouched(f) ==
  /\ nsb.bf_type[f] = CS_BOUNDARY_UNDEFINED
  /\ nsb.pressure_bc_val[f] = NULL

\* C19 as stated: once the builder is defined, every Dirichlet-pressure
\* boundary face has its type and pressure, and every other face of the cell
\* keeps the sentinel type and value.
C19_Original ==
  BuilderDefined =>
    \A f \in 0..(cm.n_fc - 1) :
      IF DirichletPressure(f) THEN DirichletFaceSet(f) ELSE Untouched(f)

\* C19 (amended): once the builder is defined, every Dirichlet-pressure
\* boundary face has its type from the global table and the prescribed
\* pressure at t_eval, every other boundary face has its type from the
\* global table and a pressure value that is the sentinel or 0, and every
\* face that is not a boundary face keeps the sentinel type and value.
C19_BuilderDefinition ==
  BuilderDefined =>
    \A f \in 0..(MaxFaces - 1) :
      IF f < cm.n_fc /\ DirichletPressure(f) THEN DirichletFaceSet(f)
      ELSE IF f < cm.n_fc /\ cm.bf_ids[f] >= 0
           THEN /\ nsb.bf_type[f] = bc.bf_type[cm.bf_ids[f]]
                /\ nsb.pressure_bc_val[f] \in {NULL, R(0)}
           ELSE Untouched(f)

\* a 6-face cell whose face 3 has an imposed pressure that varies in time and
\* whose face 0 is a wall
C19_Witness ==
  /\ BuilderDefined
  /\ cm.n_fc = 6
  /\ t_eval = 0
  /\ nsb.bf_type[3] = {"CS_BOUNDARY_OUTLET", "CS_BOUNDARY_IMPOSED_P"}
  /\ nsb.pressure_bc_val[3] = R(5)
  /\ nsb.bf_type[0] = {"CS_BOUNDARY_WALL"}
  /\ \A f \in {1, 2, 4, 5} : Untouched(f)


\* ---------------------------------------------------------------------------
\* The other public functions of the tracer, and the calls with a null tracer
\* ---------------------------------------------------------------------------

\* the members of the tracer and of its context, but for the life cycle
ContextUnchanged ==
  UNCHANGED <<model, soil_bulk_density, soil_saturated_moisture, kd0, rho_kd,
              alpha_l, alpha_t, wmd, reaction_rate, diffusivity, reaction_id,
              time_pty, reaction_pty, pty_eval, darcy_velocity>>

\* the state of the engine, but for conc_w_star
EngineUnchanged ==
  UNCHANGED <<space_scheme, rho_bulk, l_saturation, c_w, conc_precip,
              conc_satura, precip_field, c_w_save, c_p_start, c_w_local, pc,
              n_calls, rest_vars>>

\* the caller is running and the tracer has not been freed
Running == tpc \notin FatalOutcomes \cup {"freed"}

\* cs_gwf_set_precip_tracer_param(tracer, soil_name, conc_w_star)
cs_gwf_set_precip_tracer_param(tracer, soil_name, p_conc_w_star) ==
  /\ tpc = "init"
  /\ IF tracer = NULL \/ "CS_GWF_TRACER_PRECIPITATION" \notin model
       THEN /\ tpc' = "bft_error"
            /\ UNCHANGED conc_w_star
       ELSE IF soil_name = NULL_NAME
         THEN /\ conc_w_star' = [s \in Soils |-> p_conc_w_star]
              /\ tpc' = tpc
         ELSE IF cs_gwf_soil_by_name(soil_name) = {}
           THEN /\ tpc' = "bft_error"
                /\ UNCHANGED conc_w_star
           ELSE /\ conc_w_star' =
                     [s \in Soils |->
                        IF s \in cs_gwf_soil_by_name(soil_name)
                          THEN p_conc_w_star ELSE conc_w_star[s]]
                /\ tpc' = tpc
  /\ call' = public_call("cs_gwf_set_precip_tracer_param", tracer, tpc')
  /\ EngineUnchanged
  /\ ContextUnchanged

\* _free_default_tracer_context(tracer), then BFT_FREE(tracer)
free_context ==
  /\ rho_kd' = NULL
  /\ alpha_l' = NULL
  /\ alpha_t' = NULL
  /\ wmd' = NULL
  /\ reaction_rate' = NULL
  /\ IF "CS_GWF_TRACER_PRECIPITATION" \in model
       THEN conc_w_star' = NULL /\ conc_precip' = NULL /\ conc_satura' = NULL
       ELSE UNCHANGED <<conc_w_star, conc_precip, conc_satura>>
  /\ tpc' = "freed"

\* variant: a null tracer is an error
cs_gwf_tracer_free_fatal(tracer) ==
  /\ Running
  /\ IF tracer = NULL
       THEN /\ tpc' = "bft_error"
            /\ UNCHANGED <<rho_kd, alpha_l, alpha_t, wmd, reaction_rate,
                           conc_w_star, conc_precip, conc_satura>>
       ELSE free_context
  /\ call' = public_call("cs_gwf_tracer_free", tracer, tpc')
  /\ UNCHANGED <<space_scheme, rho_bulk, l_saturation, c_w, precip_field,
                 c_w_save, c_p_start, c_w_local, pc, n_calls, rest_vars>>
  /\ UNCHANGED <<model, soil_bulk_density, soil_saturated_moisture, kd0,
                 diffusivity, reaction_id, time_pty, reaction_pty, pty_eval,
                 darcy_velocity>>

\* cs_gwf_tracer_free(tracer): returns the tracer when it is NULL, NULL
\* otherwise
cs_gwf_tracer_free(tracer) ==
  /\ Running
  /\ IF tracer = NULL
       THEN UNCHANGED <<tpc, rho_kd, alpha_l, alpha_t, wmd, reaction_rate,
                        conc_w_star, conc_precip, conc_satura>>
       ELSE free_context
  /\ call' = public_call_value("cs_gwf_tracer_free", tracer, tpc', NULL)
  /\ UNCHANGED <<space_scheme, rho_bulk, l_saturation, c_w, precip_field,
                 c_w_save, c_p_start, c_w_local, pc, n_calls, rest_vars>>
  /\ UNCHANGED <<model, soil_bulk_density, soil_saturated_moisture, kd0,
                 diffusivity, reaction_id, time_pty, reaction_pty, pty_eval,
                 darcy_velocity>>

\* the lines cs_gwf_tracer_log_setup prints (the tracer has the default
\* model, without sorption)
log_lines ==
  <<"Tracer", "Default model">> \o
  (IF "CS_GWF_TRACER_PRECIPITATION" \in model
     THEN <<"Precipitation effects">> ELSE <<>>)

\* cs_gwf_tracer_log_setup(tracer)
cs_gwf_tracer_log_setup(tracer) ==
  /\ Running
  /\ call' = public_call_value("cs_gwf_tracer_log_setup", tracer, tpc,
                               IF tracer = NULL THEN <<>> ELSE log_lines)
  /\ UNCHANGED <<tpc, conc_w_star>>
  /\ EngineUnchanged
  /\ ContextUnchanged


\* the zones a tracer is integrated on: every cell, or the cells of a soil
IntegrationZones ==
  {[r \in Ranks |-> [n_elts |-> n_cells[r], elt_ids |-> NULL]]} \cup
  {[r \in Ranks |-> zone[r][s]] : s \in Soils}

\* lines 1572-1574 and 1602-1603: the sum on the vertices of a cell, each
\* weighted by share
RECURSIVE vertex_sum(_, _, _, _, _)
vertex_sum(r, v_vals, share, j, j_end) ==
  IF j >= j_end THEN R(0)
  ELSE RAdd(RMul(RMul(share, dcell_vol[r][j]), v_vals[c2v_ids[r][j]]),
            vertex_sum(r, v_vals, share, j + 1, j_end))

\* _int_value of cell c_id
cell_int_value(r, scheme, c_vals, c_id) ==
  IF scheme = "CS_SPACE_SCHEME_CDOVB"
    THEN vertex_sum(r, c_w[r], R(1), c2v_idx[r][c_id], c2v_idx[r][c_id + 1])
    ELSE RAdd(RMul(RMul(Rat(1, 4), cell_vol[r][c_id]), c_vals[r][c_id]),
              vertex_sum(r, c_w[r], Rat(3, 4), c2v_idx[r][c_id],
                         c2v_idx[r][c_id + 1]))

\* the loop on the selected cells of a rank, from element i on
RECURSIVE integrate_cells(_, _, _, _, _)
integrate_cells(r, z, scheme, c_vals, i) ==
  IF i >= z.n_elts THEN R(0)
  ELSE
    LET c_id == IF z.elt_ids = NULL THEN i ELSE z.elt_ids[i]
    IN  RAdd(RMul(RAdd(l_saturation[r][c_id], rho_kd[c2s(r)[c_id]]),
                  cell_int_value(r, scheme, c_vals, c_id)),
             integrate_cells(r, z, scheme, c_vals, i + 1))

\* cs_parall_sum of the values of the ranks
RECURSIVE cs_parall_sum(_, _)
cs_parall_sum(val, S) ==
  IF S = {} THEN R(0)
  ELSE LET r == CHOOSE x \in S : TRUE
       IN  RAdd(val[r], cs_parall_sum(val, S \ {r}))

\* cs_gwf_tracer_integrate(connect, cdoq, tracer, z), on all ranks; c_vals
\* are the cell values of the equation
cs_gwf_tracer_integrate(tracer, z, c_vals) ==
  /\ Running
  /\ tracer # NULL => tpc \in {"terms", "saturated", "unsaturated"}
  /\ IF tracer = NULL
       THEN IF ~ndebug THEN tpc' = "assert_failed"
                       ELSE tpc' \in NullReadOutcomes
       ELSE IF \E r \in Ranks : l_saturation[r] = NULL
         THEN tpc' = "bft_error"
         ELSE IF space_scheme \notin {"CS_SPACE_SCHEME_CDOVB",
                                      "CS_SPACE_SCHEME_CDOVCB"}
           THEN tpc' = "bft_error"
           ELSE tpc' = tpc
  /\ call' = public_call_value(
       "cs_gwf_tracer_integrate", tracer, tpc',
       IF tpc' = tpc
         THEN cs_parall_sum([r \in Ranks |->
                               integrate_cells(r, z[r], space_scheme, c_vals,
                                               0)], Ranks)
         ELSE NULL)
  /\ UNCHANGED conc_w_star
  /\ EngineUnchanged
  /\ ContextUnchanged

\* the values of the tracer at the vertices and at the cells
VertexValues ==
  {[r \in Ranks |-> [v \in Vertices(r) |-> R(1)]],
   [r \in Ranks |-> [v \in Vertices(r) |-> IF r = 1 /\ v = 0 THEN R(1)
                                                           ELSE R(2)]]}
CellValues == {[r \in Ranks |-> [c \in Cells(r) |-> R(4)]]}

\* the tracer after cs_gwf_tracer_init, with or without precipitation, for
\* each space scheme of its equation and each build
InitNull ==
  /\ space_scheme \in {"CS_SPACE_SCHEME_CDOVB", "CS_SPACE_SCHEME_CDOVCB",
                       "CS_SPACE_SCHEME_CDOFB"}
  /\ model \in {{}, {"CS_GWF_TRACER_PRECIPITATION"}}
  /\ conc_w_star = IF "CS_GWF_TRACER_PRECIPITATION" \in model
                     THEN [s \in Soils |-> NULL] ELSE NULL
  /\ rho_bulk = [s \in Soils |-> NULL]
  /\ l_saturation = [r \in Ranks |-> NULL]
  /\ c_w \in VertexValues
  /\ conc_precip = [r \in Ranks |-> NULL]
  /\ conc_satura = [r \in Ranks |-> NULL]
  /\ precip_field = NULL
  /\ c_w_save = [r \in Ranks |-> NULL]
  /\ c_p_start = [r \in Ranks |-> NULL]
  /\ c_w_local = [r \in Ranks |-> NULL]
  /\ pc = [r \in Ranks |-> "no_precipitation"]
  /\ n_calls = 0
  /\ ndebug \in BOOLEAN
  /\ soil_bulk_density = [s \in Soils |-> R(2)]
  /\ soil_saturated_moisture = SoilMoisture
  /\ kd0 = [s \in Soils |-> NULL]
  /\ rho_kd = [s \in Soils |-> NULL]
  /\ alpha_l = [s \in Soils |-> NULL]
  /\ alpha_t = [s \in Soils |-> NULL]
  /\ wmd = [s \in Soils |-> NULL]
  /\ reaction_rate = [s \in Soils |-> NULL]
  /\ diffusivity = NULL
  /\ reaction_id = -1
  /\ time_pty = NULL
  /\ reaction_pty = NULL
  /\ pty_eval = NULL
  /\ darcy_velocity = NULL
  /\ tpc = "init"
  /\ call = NULL
  /\ NavstoIdle

\* the tracer pointers a caller hands over
TracerPointers == {NULL, TheTracer}

NextNull ==
  \/ \E tracer \in TracerPointers, sn \in {NULL_NAME, "soil1", "soil9"},
        rr \in {R(0), R(1)} :
       cs_gwf_set_main_tracer_param(tracer, sn, R(0), R(0), R(0), R(1), rr)
  \/ \E tracer \in TracerPointers, sn \in {NULL_NAME, "soil0", "soil9"} :
       cs_gwf_set_precip_tracer_param(tracer, sn, R(1))
  \/ \E tracer \in TracerPointers : cs_gwf_tracer_add_terms(tracer)
  \/ \E tracer \in TracerPointers, th \in DiffSaturationFields :
       cs_gwf_tracer_saturated_setup(tracer, th)
  \/ \E tracer \in TracerPointers, th \in DiffSaturationFields :
       cs_gwf_tracer_unsaturated_setup(tracer, th)
  \/ \E tracer \in TracerPointers : cs_gwf_tracer_free(tracer)
  \/ \E tracer \in TracerPointers : cs_gwf_tracer_log_setup(tracer)
  \/ \E tracer \in TracerPointers, z \in IntegrationZones,
        c_vals \in CellValues :
       cs_gwf_tracer_integrate(tracer, z, c_vals)

SpecNull == InitNull /\ [][NextNull]_vars


\* the last call of a public function received a null tracer
NullTracerCall == call # NULL /\ call.tracer = NULL

\* the public functions that test the tracer and call bft_error
FatalOnNull ==
  {"cs_gwf_set_main_tracer_param", "cs_gwf_set_precip_tracer_param",
   "cs_gwf_tracer_add_terms", "cs_gwf_tracer_saturated_setup",
   "cs_gwf_tracer_unsaturated_setup"}

\* C20 as stated: every public operation of the tracer that receives a null
\* tracer aborts with a fatal error; none returns normally.
C20_Original ==
  NullTracerCall => call.outcome \in {"bft_error", "assert_failed"}

\* C20 (amended): with a null tracer, the two parameter setters, add_terms
\* and the two setups abort with a fatal error; cs_gwf_tracer_free returns
\* the null pointer and cs_gwf_tracer_log_setup returns having printed
\* nothing; cs_gwf_tracer_integrate fails its assertion in a build that
\* checks assertions and reads through the null pointer otherwise.
C20_NullTracer ==
  NullTracerCall =>
    IF call.op \in FatalOnNull THEN call.outcome = "bft_error"
    ELSE IF call.op = "cs_gwf_tracer_free"
      THEN call.outcome = "returned" /\ call.value = NULL
    ELSE IF call.op = "cs_gwf_tracer_log_setup"
      THEN call.outcome = "returned" /\ call.value = <<>>
    ELSE /\ call.op = "cs_gwf_tracer_integrate"
         /\ IF ndebug THEN call.outcome \in NullReadOutcomes
                      ELSE call.outcome = "assert_failed"

\* cs_gwf_tracer_free has returned from a call with a null tracer, the
\* tracer of the caller being set up
C20_Witness ==
  /\ NullTracerCall
  /\ call.op = "cs_gwf_tracer_free"
  /\ call.outcome = "returned"
  /\ tpc = "saturated"

\* ---------------------------------------------------------------------------
\* The space scheme of the tracer equation
\* ---------------------------------------------------------------------------

\* the loop on the selected cells of a rank in the saturated case
RECURSIVE integrate_sat_cells(_, _, _, _, _)
integrate_sat_cells(r, z, scheme, c_vals, i) ==
  IF i >= z.n_elts THEN R(0)
  ELSE
    LET c_id == IF z.elt_ids = NULL THEN i ELSE z.elt_ids[i]
        s    == c2s(r)[c_id]
    IN  RAdd(RMul(RAdd(soil_saturated_moisture[s], rho_kd[s]),
                  cell_int_value(r, scheme, c_vals, c_id)),
             integrate_sat_cells(r, z, scheme, c_vals, i + 1))

\* cs_gwf_tracer_integrate_sat(connect, cdoq, tracer, z), on all ranks; c_vals
\* are the cell values of the equation
cs_gwf_tracer_integrate_sat(tracer, z, c_vals) ==
  /\ Running
  /\ tracer # NULL => tpc \in {"terms", "saturated", "unsaturated"}
  /\ IF tracer = NULL
       THEN IF ~ndebug THEN tpc' = "assert_failed"
                       ELSE tpc' \in NullReadOutcomes
       ELSE IF space_scheme \notin {"CS_SPACE_SCHEME_CDOVB",
                                    "CS_SPACE_SCHEME_CDOVCB"}
         THEN tpc' = "bft_error"
         ELSE tpc' = tpc
  /\ call' = public_call_value(
       "cs_gwf_tracer_integrate_sat", tracer, tpc',
       IF tpc' = tpc
         THEN cs_parall_sum([r \in Ranks |->
                               integrate_sat_cells(r, z[r], space_scheme,
                                                   c_vals, 0)], Ranks)
         ELSE NULL)
  /\ UNCHANGED conc_w_star
  /\ EngineUnchanged
  /\ ContextUnchanged

\* the space schemes of an equation: the two CDO schemes with unknowns at
\* vertices, and others
SpaceSchemes ==
  {"CS_SPACE_SCHEME_CDOVB", "CS_SPACE_SCHEME_CDOVCB", "CS_SPACE_SCHEME_CDOFB",
   "CS_SPACE_SCHEME_LEGACY"}

\* the tracer after cs_gwf_tracer_init, with or without precipitation, for
\* each space scheme of its equation
InitScheme ==
  /\ space_scheme \in SpaceSchemes
  /\ model \in {{}, {"CS_GWF_TRACER_PRECIPITATION"}}
  /\ conc_w_star \in IF "CS_GWF_TRACER_PRECIPITATION" \in model
                       THEN [Soils -> WStarSet] ELSE {NULL}
  /\ rho_bulk = [s \in Soils |-> NULL]
  /\ l_saturation = [r \in Ranks |-> NULL]
  /\ c_w \in VertexValues
  /\ conc_precip = [r \in Ranks |-> NULL]
  /\ conc_satura = [r \in Ranks |-> NULL]
  /\ precip_field = NULL
  /\ c_w_save = [r \in Ranks |-> NULL]
  /\ c_p_start = [r \in Ranks |-> NULL]
  /\ c_w_local = [r \in Ranks |-> NULL]
  /\ pc = [r \in Ranks |-> IF "CS_GWF_TRACER_PRECIPITATION" \in model
                             THEN "init" ELSE "no_precipitation"]
  /\ n_calls = 0
  /\ ndebug = FALSE
  /\ soil_bulk_density = [s \in Soils |-> R(2)]
  /\ soil_saturated_moisture = SoilMoisture
  /\ kd0 = [s \in Soils |-> NULL]
  /\ rho_kd = [s \in Soils |-> NULL]
  /\ alpha_l = [s \in Soils |-> NULL]
  /\ alpha_t = [s \in Soils |-> NULL]
  /\ wmd = [s \in Soils |-> NULL]
  /\ reaction_rate = [s \in Soils |-> NULL]
  /\ diffusivity = NULL
  /\ reaction_id = -1
  /\ time_pty = NULL
  /\ reaction_pty = NULL
  /\ pty_eval = NULL
  /\ darcy_velocity = NULL
  /\ tpc = "init"
  /\ call = NULL
  /\ NavstoIdle

\* no rank has stopped in the setup of the precipitation
NoRankAborted == \A r \in Ranks : pc[r] # "bft_error"

NextScheme ==
  \/ \E sn \in {NULL_NAME, "soil1"}, kd \in KdSet :
       /\ NoRankAborted
       /\ cs_gwf_set_main_tracer_param(TheTracer, sn, R(0), R(0), R(0), kd,
                                       R(0))
  \/ NoRankAborted /\ cs_gwf_tracer_add_terms(TheTracer)
  \/ \E th \in DiffSaturationFields :
       cs_gwf_tracer_saturated_setup(TheTracer, th)
  \/ \E th \in DiffSaturationFields :
       cs_gwf_tracer_unsaturated_setup(TheTracer, th)
  \/ \E r \in Ranks : tpc = "terms" /\ add_precipitation_local(r)
  \/ tpc = "terms" /\ AddPrecipitationSync
  \/ \E z \in IntegrationZones, c_vals \in CellValues :
       NoRankAborted /\ cs_gwf_tracer_integrate(TheTracer, z, c_vals)
  \/ \E z \in IntegrationZones, c_vals \in CellValues :
       NoRankAborted /\ cs_gwf_tracer_integrate_sat(TheTracer, z, c_vals)

SpecScheme == InitScheme /\ [][NextScheme]_vars

\* the space scheme is neither CDO vertex-based nor CDO vertex+cell-based
UnsupportedScheme ==
  space_scheme \notin {"CS_SPACE_SCHEME_CDOVB", "CS_SPACE_SCHEME_CDOVCB"}

\* the last call is an integration of the tracer
IntegrationCall ==
  /\ call # NULL
  /\ call.op \in {"cs_gwf_tracer_integrate", "cs_gwf_tracer_integrate_sat"}

\* C21: with a space scheme that is neither CDO vertex-based nor CDO
\* vertex+cell-based, cs_gwf_tracer_integrate and cs_gwf_tracer_integrate_sat
\* end in a fatal error without an integral value, and the setup of the
\* precipitation ends in a fatal error on every rank it has run on, with
\* conc_precip and conc_satura not allocated.
C21_UnsupportedScheme ==
  UnsupportedScheme =>
    /\ IntegrationCall =>
         call.outcome = "bft_error" /\ call.value = NULL
    /\ \A r \in Ranks :
         pc[r] \notin {"init", "no_precipitation"} =>
           /\ pc[r] = "bft_error"
           /\ conc_precip[r] = NULL
           /\ conc_satura[r] = NULL

\* the saturated integration of a tracer set up with a face-based scheme has
\* stopped in bft_error
C21_Witness ==
  /\ space_scheme = "CS_SPACE_SCHEME_CDOFB"
  /\ l_saturation[1] # NULL
  /\ call.op = "cs_gwf_tracer_integrate_sat"
  /\ call.outcome = "bft_error"
  /\ tpc = "bft_error"


\* ---------------------------------------------------------------------
\* Boundary conditions read from the GUI (cs_gui_boundary_conditions.c)
\* ---------------------------------------------------------------------

\* floating-point values that are not numbers of the model: the quotients
\* by zero of IEEE 754
NaN == <<0, 0>>
PlusInf == <<1, 0>>
MinusInf == <<-1, 0>>

IsFinite(x) == x[2] # 0

\* x / y in floating point: a division by zero is not trapped, it gives an
\* infinity or, for 0/0, a NaN
FDiv(x, y) ==
  IF ~IsFinite(x) \/ ~IsFinite(y) THEN NaN
  ELSE IF y[1] # 0 THEN RDiv(x, y)
  ELSE IF x[1] = 0 THEN NaN
  ELSE IF x[1] > 0 THEN PlusInf ELSE MinusInf

\* x * y in floating point
FMul(x, y) ==
  IF IsFinite(x) /\ IsFinite(y) THEN RMul(x, y)
  ELSE IF x = NaN \/ y = NaN \/ x[1] = 0 \/ y[1] = 0 THEN NaN
  ELSE IF (x[1] > 0) = (y[1] > 0) THEN PlusInf ELSE MinusInf

\* cs_math_3_norm: the Euclidean norm of a vector
cs_math_3_norm(v) ==
  sqrt(RAdd(RAdd(RMul(v[1], v[1]), RMul(v[2], v[2])), RMul(v[3], v[3])))

\* the boundary faces of the mesh: the zone at position izone of the tree
\* holds the face izone or no face
n_b_faces == 2
BFaces == 1..n_b_faces

\* b_face_normal and b_face_surf of every boundary face
b_face_normal == <<R(0), R(0), R(2)>>
b_face_surf == cs_math_3_norm(b_face_normal)

\* the wall functions for which no roughness is read
SmoothWallFunctions ==
  {"CS_WALL_F_DISABLED", "CS_WALL_F_1SCALE_POWER", "CS_WALL_F_SCALABLE_2SCALES_LOG", "CS_WALL_F_2SCALES_CONTINUOUS"}

ZeroDir == <<R(0), R(0), R(0)>>
UnitDir == <<R(3), R(4), R(0)>>

\* a boundary node of the tree with its zone
gui_zone(nature, n_elts, choice_v, choice_d, dir, roughness) ==
  [nature |-> nature, n_elts |-> n_elts, choice_v |-> choice_v, choice_d |-> choice_d, dir |-> dir, norm |-> R(10), roughness |-> roughness]

\* the natures uiclim and uiclve know, apart from inlet and wall
PlainNatures ==
  {"outlet", "imposed_p_outlet", "symmetry", "free_inlet_outlet", "free_surface", "groundwater", "undefined"}

\* a nature that none of the functions knows
UnknownNature == "porous_wall"

InletZones ==
  { gui_zone("inlet", n, cv, cd, d, NULL) : n \in 0..1, cv \in {"norm", "flow1", "norm_formula"}, cd \in {"coordinates", "normal", "formula"}, d \in {ZeroDir, UnitDir} }

\* walls: with no roughness in the tree, with a roughness of zero and with a
\* positive one
WallZones ==
  { gui_zone("wall", n, NULL, NULL, ZeroDir, r) : n \in 0..1, r \in {NULL, R(0), <<1, 2>>} }

PlainZones ==
  { gui_zone(nat, 1, NULL, NULL, ZeroDir, NULL) : nat \in PlainNatures \cup {UnknownNature} }

GuiZones == InletZones \cup WallZones \cup PlainZones

\* the zones that may come first in a tree of two zones
FirstZones ==
  { gui_zone("symmetry", 1, NULL, NULL, ZeroDir, NULL), gui_zone(UnknownNature, 1, NULL, NULL, ZeroDir, NULL), gui_zone("wall", 1, NULL, NULL, ZeroDir, <<1, 2>>), gui_zone("inlet", 1, "norm", "normal", UnitDir, NULL) }

GuiZoneLists ==
  { <<z>> : z \in GuiZones } \cup { <<y, z>> : y \in FirstZones, z \in GuiZones }

\* the options of the computation the three functions read
GuiOptions ==
  { [ale |-> 0, iwallf |-> "CS_WALL_F_2SCALES_LOG", nozppm |-> 2], [ale |-> 1, iwallf |-> "CS_WALL_F_2SCALES_LOG", nozppm |-> 2], [ale |-> 0, iwallf |-> "CS_WALL_F_DISABLED", nozppm |-> 2], [ale |-> 0, iwallf |-> "CS_WALL_F_2SCALES_LOG", nozppm |-> 1] }

\* the faces of the zone at position izone
zone_faces(zones, izone) ==
  IF zones[izone].n_elts = 0 THEN {} ELSE {izone}

\* _init_boundaries: the structure boundaries filled from the tree
init_boundaries(g) ==
  [izone \in 1..Len(g.zones) |->
     LET z == g.zones[izone]
     IN [nature |-> z.nature,
         norm |-> IF z.nature = "inlet" /\ z.choice_v = "norm" THEN z.norm ELSE R(0),
         dir |-> IF z.nature = "inlet" /\ z.choice_d \in {"coordinates", "translation"} THEN z.dir ELSE ZeroDir,
         rough |-> IF z.nature = "wall" /\ g.iwallf \notin SmoothWallFunctions /\ z.roughness # NULL THEN z.roughness ELSE R(-999)]]

\* the type cs_gui_boundary_conditions_define gives a zone
define_bc_type(g, z) ==
  IF z.nature = "inlet" THEN {"CS_BOUNDARY_INLET", "CS_BOUNDARY_IMPOSED_VEL"}
  ELSE IF z.nature = "wall"
    THEN {"CS_BOUNDARY_WALL"} \cup (IF g.iwallf \notin SmoothWallFunctions /\ z.roughness # NULL /\ RLt(R(0), z.roughness) THEN {"CS_BOUNDARY_ROUGH_WALL"} ELSE {})
  ELSE IF z.nature = "outlet" THEN {"CS_BOUNDARY_OUTLET"}
  ELSE IF z.nature = "free_inlet_outlet" THEN {"CS_BOUNDARY_INLET", "CS_BOUNDARY_OUTLET"}
  ELSE IF z.nature = "imposed_p_outlet" THEN {"CS_BOUNDARY_OUTLET", "CS_BOUNDARY_IMPOSED_P"}
  ELSE IF z.nature # "symmetry" THEN {"CS_BOUNDARY_SYMMETRY"}
  ELSE {}

\* cs_gui_boundary_conditions_define: every zone of the tree is added to the
\* boundaries of the domain with its type, the field boundary_roughness is
\* created for the first rough wall, and boundaries is filled
cs_gui_boundary_conditions_define ==
  /\ gui_pc # NULL
  /\ gui_pc.define = "none"
  /\ bdy' = [izone \in 1..Len(gui.zones) |-> define_bc_type(gui, gui.zones[izone])]
  /\ f_roughness' = IF \E izone \in 1..Len(gui.zones) : "CS_BOUNDARY_ROUGH_WALL" \in define_bc_type(gui, gui.zones[izone]) THEN [f \in BFaces |-> R(0)] ELSE f_roughness
  /\ boundaries' = init_boundaries(gui)
  /\ gui_pc' = [gui_pc EXCEPT !.define = "done"]
  /\ UNCHANGED <<gui, rcodcl, itypfb, gwf_vars, tc_vars, ndebug, navsto_vars, mesh_vars>>

\* a vector times a scalar, in floating point
VScale(v, s) == [ic \in 1..3 |-> FMul(v[ic], s)]

\* the velocity uiclim gives the face of an inlet zone from its direction and
\* its norm: error tells that bft_error was called for a direction of
\* norm zero, val is the value stored in rcodcl
inlet_velocity(z, b) ==
  LET x_norm == cs_math_3_norm(z.dir)
      minus_normal == VScale(b_face_normal, R(-1))
  IN IF z.choice_d = "coordinates"
       THEN IF z.choice_v = "norm" THEN [error |-> FALSE, val |-> VScale(b.dir, FDiv(b.norm, cs_math_3_norm(b.dir)))]
            ELSE IF z.choice_v = "flow1" THEN [error |-> FALSE, val |-> b.dir]
            ELSE IF RLeq(cs_math_3_norm(b.dir), R(0)) THEN [error |-> TRUE, val |-> NULL]
            ELSE [error |-> FALSE, val |-> [ic \in 1..3 |-> FDiv(FMul(b.dir[ic], z.norm), cs_math_3_norm(b.dir))]]
     ELSE IF z.choice_d = "normal"
       THEN IF z.choice_v = "norm" THEN [error |-> FALSE, val |-> VScale(minus_normal, FDiv(b.norm, b_face_surf))]
            ELSE IF z.choice_v = "flow1" THEN [error |-> FALSE, val |-> [ic \in 1..3 |-> FDiv(minus_normal[ic], b_face_surf)]]
            ELSE [error |-> FALSE, val |-> [ic \in 1..3 |-> FDiv(FMul(minus_normal[ic], z.norm), b_face_surf)]]
     ELSE IF RLeq(x_norm, R(0)) THEN [error |-> TRUE, val |-> NULL]
     ELSE IF z.choice_v = "norm" THEN [error |-> FALSE, val |-> VScale(z.dir, FDiv(b.norm, x_norm))]
     ELSE IF z.choice_v = "flow1" THEN [error |-> FALSE, val |-> z.dir]
     ELSE [error |-> FALSE, val |-> [ic \in 1..3 |-> FDiv(FMul(z.dir[ic], z.norm), x_norm)]]

\* the face type uiclim stores for a nature other than inlet and wall
plain_face_type(nature) ==
  CASE nature \in {"outlet", "imposed_p_outlet"} -> "CS_OUTLET"
    [] nature = "symmetry" -> "CS_SYMMETRY"
    [] nature = "free_inlet_outlet" -> "CS_FREE_INLET"
    [] nature = "free_surface" -> "CS_FREE_SURFACE"
    [] nature \in {"groundwater", "undefined"} -> "CS_INDEF"
    [] OTHER -> "unknown"

\* one zone of the loop of uiclim on the state st of the arrays; ub is what
\* a write through a null field does when the assertion is compiled out
uiclim_zone(g, bs, st, izone, nd, ub) ==
  LET z == g.zones[izone]
      b == bs[izone]
      faces == zone_faces(g.zones, izone)
      typed(t) == [f \in BFaces |-> IF f \in faces THEN t ELSE st.itypfb[f]]
  IN IF b.nature = "inlet"
       THEN LET v == inlet_velocity(z, b)
            IN IF faces = {} THEN st
               ELSE IF v.error THEN [st EXCEPT !.itypfb = typed("CS_INLET"), !.out = "bft_error"]
               ELSE [st EXCEPT !.itypfb = typed("CS_INLET"), !.rcodcl = [f \in BFaces |-> IF f \in faces THEN v.val ELSE st.rcodcl[f]]]
     ELSE IF b.nature = "wall"
       THEN IF RLeq(R(0), b.rough)
              THEN IF faces = {} THEN st
                   ELSE IF st.f_roughness = NULL THEN [st EXCEPT !.out = IF nd THEN ub ELSE "assert_failed"]
                   ELSE [st EXCEPT !.f_roughness = [f \in BFaces |-> IF f \in faces THEN b.rough ELSE st.f_roughness[f]], !.itypfb = typed("CS_ROUGHWALL")]
              ELSE [st EXCEPT !.itypfb = typed("CS_SMOOTHWALL")]
     ELSE IF plain_face_type(b.nature) = "unknown" THEN [st EXCEPT !.out = "bft_error"]
     ELSE [st EXCEPT !.itypfb = typed(plain_face_type(b.nature)),
                     !.rcodcl = IF b.nature = "groundwater" THEN [f \in BFaces |-> IF f \in faces THEN ZeroDir ELSE st.rcodcl[f]] ELSE st.rcodcl]

RECURSIVE uiclim_loop(_, _, _, _, _, _)
\* the loop of uiclim over the zones, left at the first error
uiclim_loop(g, bs, st, izone, nd, ub) ==
  IF izone > Len(g.zones) \/ st.out # "done" THEN st
  ELSE uiclim_loop(g, bs, uiclim_zone(g, bs, st, izone, nd, ub), izone + 1, nd, ub)

\* the setup is read and no function has ended the run
GuiRunning ==
  /\ gui_pc # NULL
  /\ gui_pc.define = "done"
  /\ gui_pc.uiclim \notin FatalOutcomes
  /\ gui_pc.uiclve \notin FatalOutcomes

\* uiclim: the boundary conditions of every zone are stored in the arrays
uiclim ==
  /\ GuiRunning
  /\ gui_pc.uiclim = "none"
  /\ \E ub \in NullReadOutcomes :
       LET st == uiclim_loop(gui, boundaries, [rcodcl |-> rcodcl, itypfb |-> itypfb, f_roughness |-> f_roughness, out |-> "done"], 1, ndebug, ub)
       IN /\ rcodcl' = st.rcodcl
          /\ itypfb' = st.itypfb
          /\ f_roughness' = st.f_roughness
          /\ gui_pc' = [gui_pc EXCEPT !.uiclim = st.out]
  /\ UNCHANGED <<gui, bdy, boundaries, gwf_vars, tc_vars, ndebug, navsto_vars, mesh_vars>>

\* the nature uiclve finds for a zone, none when no branch matches
uiclve_nature(g, b) ==
  CASE b.nature = "inlet" -> "CS_INLET"
    [] b.nature = "wall" -> IF RLt(b.rough, R(0)) THEN "CS_SMOOTHWALL" ELSE "CS_ROUGHWALL"
    [] b.nature \in {"outlet", "imposed_p_outlet"} -> "CS_OUTLET"
    [] b.nature = "symmetry" -> "CS_SYMMETRY"
    [] b.nature = "free_inlet_outlet" -> "CS_FREE_INLET"
    [] b.nature = "free_surface" /\ g.ale # 0 -> "CS_FREE_SURFACE"
    [] b.nature \in {"undefined", "groundwater"} -> "CS_INDEF"
    [] OTHER -> "none"

RECURSIVE uiclve_loop(_, _, _, _)
\* the loop of uiclve: inature is declared before the loop and keeps the
\* value of the zone before when no branch matches
uiclve_loop(g, bs, inature, izone) ==
  IF izone > Len(bs) THEN "done"
  ELSE LET found == uiclve_nature(g, bs[izone])
           now == IF found = "none" THEN inature ELSE found
       IN IF now = "none" THEN "bft_error"
          ELSE IF izone > g.nozppm THEN "bft_error"
          ELSE uiclve_loop(g, bs, now, izone + 1)

\* uiclve: the verification of the natures and of the number of zones
uiclve ==
  /\ GuiRunning
  /\ gui_pc.uiclve = "none"
  /\ gui_pc' = [gui_pc EXCEPT !.uiclve = uiclve_loop(gui, boundaries, "none", 1)]
  /\ UNCHANGED <<gui, bdy, boundaries, f_roughness, rcodcl, itypfb, gwf_vars, tc_vars, ndebug, navsto_vars, mesh_vars>>

InitGui ==
  /\ GwfIdle /\ TracerIdle /\ MeshIdle
  /\ cm = NULL /\ div = NULL /\ nsb = NULL /\ bc = NULL /\ t_eval = 0
  /\ ndebug \in BOOLEAN
  /\ \E zones \in GuiZoneLists, o \in GuiOptions :
       gui = [zones |-> zones, ale |-> o.ale, iwallf |-> o.iwallf, nozppm |-> o.nozppm]
  /\ bdy = NULL /\ boundaries = NULL /\ f_roughness = NULL
  /\ rcodcl = [f \in BFaces |-> NULL]
  /\ itypfb = [f \in BFaces |-> "unset"]
  /\ gui_pc = [define |-> "none", uiclim |-> "none", uiclve |-> "none"]

NextGui ==
  \/ cs_gui_boundary_conditions_define
  \/ uiclim
  \/ uiclve

SpecGui == InitGui /\ [][NextGui]_vars

\* the zone izone has a face and an inlet direction of norm zero, given by
\* coordinates or by a formula, with a velocity by norm or norm_formula, and
\* no zone before it has an unknown nature
ZeroNormInlet(izone) ==
  /\ gui.zones[izone].nature = "inlet"
  /\ zone_faces(gui.zones, izone) # {}
  /\ gui.zones[izone].choice_d \in {"coordinates", "formula"}
  /\ gui.zones[izone].choice_v \in {"norm", "norm_formula"}
  /\ gui.zones[izone].dir = ZeroDir
  /\ \A j \in 1..(izone - 1) : gui.zones[j].nature # UnknownNature

\* C22: after uiclim, a zone whose inlet direction, given by coordinates or
\* by a formula, has a norm of zero with a velocity by norm or norm_formula
\* has ended uiclim with a fatal error, and no face of the zone holds a
\* velocity in rcodcl that comes from the division by the norm
C22_ZeroNormDirection ==
  (gui_pc # NULL /\ gui_pc.uiclim # "none") =>
    \A izone \in 1..Len(gui.zones) :
      ZeroNormInlet(izone) =>
        /\ gui_pc.uiclim = "bft_error"
        /\ \A f \in zone_faces(gui.zones, izone) : rcodcl[f] = NULL


\* ---------------------------------------------------------------------
\* The order of the visits in the update of the precipitation
\* ---------------------------------------------------------------------

\* the orders in which the (cell, vertex) pairs of rank r can be visited
VisitOrders(r) ==
  { o \in [1..Cardinality(Pairs(r)) -> Pairs(r)] : \A a, b \in DOMAIN o : a # b => o[a] # o[b] }

RECURSIVE update_in_order(_, _, _, _, _, _)
\* the body of the loop (lines 697-713) run on the pairs in the order o, each
\* pair with the cell and the soil it belongs to
update_in_order(st, r, sav, theta, o, k) ==
  IF k > Len(o) THEN st
  ELSE LET c_id == CellOf(r, o[k])
       IN update_in_order(update_pair(st, r, sav, theta, rho_bulk[SoilOf(r, c_id)], c_id, o[k]), r, sav, theta, o, k + 1)

\* C23: the values of c_w and c_p after the update loop of one call are the
\* same for every order in which the soils, the cells of a soil and the
\* vertices of a cell are visited, interleaved orders included
C23_OrderIndependence ==
  \A r \in Ranks :
    pc[r] = "local_done" =>
      \A o \in VisitOrders(r) :
        update_in_order([c_w |-> c_w_save[r], c_p |-> c_p_start[r]], r, c_w_save[r], l_saturation[r], o, 1) = [c_w |-> c_w[r], c_p |-> conc_precip[r]]

\* the loop has run on rank 1, where two cells of different soils share
\* vertex 1: both dissolve, up to different concentrations
C23_Witness ==
  /\ pc[1] = "local_done"
  /\ SoilOf(1, CellOf(1, 1)) # SoilOf(1, CellOf(1, 2))
  /\ VtxOf(1, 1) = VtxOf(1, 2)
  /\ RLt(conc_precip[1][1], c_p_start[1][1])
  /\ RLt(conc_precip[1][2], c_p_start[1][2])
  /\ DeltaCp(1, 1) # DeltaCp(1, 2)
  /\ RLt(c_w_save[1][1], c_w[1][1])


\* ---------------------------------------------------------------------
\* The release of the tracer
\* ---------------------------------------------------------------------

\* C24: after cs_gwf_tracer_free of a default tracer, the arrays allocated
\* for it (rho_bulk, kd0, rho_kd, alpha_l, alpha_t, wmd, reaction_rate and,
\* with precipitation, conc_w_star, conc_precip, conc_satura) and its context
\* are released, and the function has returned NULL
C24_TeardownReleases ==
  (call # NULL /\ call.op = "cs_gwf_tracer_free" /\ call.tracer # NULL) =>
    /\ call.outcome = "returned"
    /\ call.value = NULL
    /\ tpc = "freed"
    /\ rho_bulk = NULL
    /\ kd0 = NULL
    /\ rho_kd = NULL
    /\ alpha_l = NULL
    /\ alpha_t = NULL
    /\ wmd = NULL
    /\ reaction_rate = NULL
    /\ "CS_GWF_TRACER_PRECIPITATION" \in model => (conc_w_star = NULL /\ conc_precip = NULL /\ conc_satura = NULL)


\* ---------------------------------------------------------------------
\* The parameters of a tracer in each soil
\* ---------------------------------------------------------------------

\* the per-soil arrays cs_gwf_set_main_tracer_param writes
SoilArrays == <<rho_bulk, kd0, rho_kd, alpha_l, alpha_t, wmd, reaction_rate>>

\* the entries of soil s hold the parameters of the call
SoilSet(s, p_wmd, p_alpha_l, p_alpha_t, distrib_coef, p_reaction_rate) ==
  /\ rho_bulk'[s] = soil_bulk_density[s]
  /\ kd0'[s] = distrib_coef
  /\ rho_kd'[s] = RMul(soil_bulk_density[s], distrib_coef)
  /\ alpha_l'[s] = p_alpha_l
  /\ alpha_t'[s] = p_alpha_t
  /\ wmd'[s] = p_wmd
  /\ reaction_rate'[s] = p_reaction_rate

\* the entries of soil s are the ones before the call
SoilKept(s) ==
  /\ rho_bulk'[s] = rho_bulk[s] /\ kd0'[s] = kd0[s] /\ rho_kd'[s] = rho_kd[s]
  /\ alpha_l'[s] = alpha_l[s] /\ alpha_t'[s] = alpha_t[s] /\ wmd'[s] = wmd[s]
  /\ reaction_rate'[s] = reaction_rate[s]

\* the names a call may give: no name, the two soils and a name of no soil
CallNames == {NULL_NAME, "soil0", "soil1", "soil9"}

\* C25: cs_gwf_set_main_tracer_param with the name of a soil sets the
\* entries of that soil in rho_bulk, kd0, rho_kd, alpha_l, alpha_t, wmd and
\* reaction_rate and leaves those of every other soil; with no name it sets
\* the entries of all soils; rho_kd[s] is then bulk_density(s) times
\* distrib_coef; with a name of no soil it raises an error and writes nothing
C25_PerSoilSetting ==
  [][\A sn \in CallNames, w \in WmdSet, al \in AlphaLSet, at \in AlphaTSet, kd \in KdSet, rr \in RateSet :
       cs_gwf_set_main_tracer_param(TheTracer, sn, w, al, at, kd, rr) =>
         IF sn # NULL_NAME /\ \A s \in Soils : SoilNames[s + 1] # sn
           THEN tpc' = "bft_error" /\ UNCHANGED SoilArrays
           ELSE /\ tpc' # "bft_error"
                /\ \A s \in Soils :
                     IF sn = NULL_NAME \/ SoilNames[s + 1] = sn
                       THEN SoilSet(s, w, al, at, kd, rr)
                       ELSE SoilKept(s)]_vars

\* soil 1 alone has been set again, with a coefficient soil 0 does not have
C25_Witness ==
  /\ call # NULL /\ call.op = "cs_gwf_set_main_tracer_param"
  /\ tpc = "init"
  /\ kd0[0] = R(0) /\ kd0[1] = R(1)
  /\ rho_kd[0] = R(0) /\ rho_kd[1] = soil_bulk_density[1]
  /\ soil_bulk_density[1] = R(2)
  /\ reaction_rate[0] = R(2) /\ reaction_rate[1] = R(0)


\* the natures uiclve accepts for a zone
KnownNature(nature) ==
  \/ nature \in {"inlet", "wall", "outlet", "imposed_p_outlet", "symmetry", "free_inlet_outlet", "undefined", "groundwater"}
  \/ nature = "free_surface" /\ gui.ale # 0

\* C26: uiclve ends with the fatal error of an unknown boundary nature
\* whenever a zone of the list, at any position, has a nature it does not
\* accept, whatever the natures of the zones before it
C26_UnknownNature ==
  (gui_pc # NULL /\ gui_pc.uiclve # "none") =>
    ((\E izone \in 1..Len(gui.zones) : ~KnownNature(gui.zones[izone].nature)) => gui_pc.uiclve = "bft_error")

\* C27: cs_gui_boundary_conditions_define adds a zone of nature symmetry
\* with a type that holds CS_BOUNDARY_SYMMETRY and a zone of any other
\* nature with a type that does not hold it
C27_SymmetryType ==
  (gui_pc # NULL /\ gui_pc.define = "done") =>
    \A izone \in 1..Len(gui.zones) :
      ("CS_BOUNDARY_SYMMETRY" \in bdy[izone]) <=> (gui.zones[izone].nature = "symmetry")

\* uiclim has taken the rough-wall path for the zone izone: the roughness
\* kept in boundaries is not negative and the zone has a face to write
RoughWallPath(izone) ==
  /\ boundaries[izone].nature = "wall"
  /\ RLeq(R(0), boundaries[izone].rough)
  /\ zone_faces(gui.zones, izone) # {}

\* C28: for every wall zone and every roughness read from the tree, zero
\* included, uiclim takes the rough-wall path only if
\* cs_gui_boundary_conditions_define gave the zone CS_BOUNDARY_ROUGH_WALL
\* and created the field boundary_roughness, so that the assertion
\* f_roughness != NULL of uiclim does not fail
C28_RoughWallConsistency ==
  (gui_pc # NULL /\ gui_pc.uiclim # "none") =>
    /\ \A izone \in 1..Len(gui.zones) :
         RoughWallPath(izone) => ("CS_BOUNDARY_ROUGH_WALL" \in bdy[izone] /\ f_roughness # NULL)
    /\ gui_pc.uiclim \notin {"assert_failed"} \cup NullReadOutcomes


\* ---------------------------------------------------------------------
\* The Cartesian mesh (cs_mesh_cartesian.c)
\* ---------------------------------------------------------------------

\* the largest number of cells of a direction
MaxNCells == 2
NCellsSet == 1..MaxNCells

nvtx_per_face == 4

\* the directions of the mesh
Dirs == 0..2

\* no function of the Cartesian mesh has ended the run
MeshRunning == mesh_pc = "returned"

\* _cs_mesh_cartesian_init(ndir): the structure with its array of ndir
\* pointers, none of them set
cs_mesh_cartesian_init(ndir) ==
  [ndir |-> ndir, params |-> [idim \in 0..(ndir - 1) |-> NULL]]

\* _cs_mesh_cartesian_create_direction for the constant law
cs_mesh_cartesian_create_direction(law, ncells, smin, smax, progression) ==
  [ncells |-> ncells, smin |-> smin, smax |-> smax, law |-> law, progression |-> R(-1), s |-> <<RDiv(RSub(smax, smin), R(ncells))>>]

\* cs_mesh_cartesian_create
cs_mesh_cartesian_create ==
  /\ MeshRunning
  /\ IF mesh_params # NULL
       THEN mesh_pc' = "bft_error" /\ UNCHANGED <<mesh_params, build_mesh_cartesian>>
       ELSE /\ mesh_params' = cs_mesh_cartesian_init(3)
            /\ build_mesh_cartesian' = 1
            /\ UNCHANGED mesh_pc
  /\ UNCHANGED <<mb, gwf_vars, tc_vars, ndebug, navsto_vars, gui_vars>>

RECURSIVE define_dirs(_, _, _, _)
\* the loop of cs_mesh_cartesian_define_simple from direction idim on: it
\* stops at the first direction with smax < smin
define_dirs(mp, ncells, xyz, idim) ==
  IF idim >= 3 THEN [mp |-> mp, out |-> "returned"]
  ELSE IF RLt(xyz[idim + 3], xyz[idim]) THEN [mp |-> mp, out |-> "bft_error"]
  ELSE define_dirs([mp EXCEPT !.params[idim] = cs_mesh_cartesian_create_direction("CS_MESH_CARTESIAN_CONSTANT_LAW", ncells[idim], xyz[idim], xyz[idim + 3], R(-1))], ncells, xyz, idim + 1)

\* cs_mesh_cartesian_define_simple(ncells, xyz)
cs_mesh_cartesian_define_simple(ncells, xyz) ==
  /\ MeshRunning
  /\ LET mp == IF mesh_params = NULL THEN cs_mesh_cartesian_init(3) ELSE mesh_params
         res == define_dirs(mp, ncells, xyz, 0)
     IN mesh_params' = res.mp /\ mesh_pc' = res.out
  /\ UNCHANGED <<build_mesh_cartesian, mb, gwf_vars, tc_vars, ndebug, navsto_vars, gui_vars>>

\* cs_mesh_cartesian_define_dir_params(idim, law, ncells, smin, smax,
\* progression)
cs_mesh_cartesian_define_dir_params(idim, law, ncells, smin, smax, progression) ==
  /\ MeshRunning
  /\ LET mp == IF mesh_params = NULL THEN cs_mesh_cartesian_init(3) ELSE mesh_params
     IN IF RLt(smax, smin)
          THEN mesh_params' = mp /\ mesh_pc' = "bft_error"
          ELSE /\ mesh_params' = [mp EXCEPT !.params[idim] = cs_mesh_cartesian_create_direction(law, ncells, smin, smax, progression)]
               /\ UNCHANGED mesh_pc
  /\ UNCHANGED <<build_mesh_cartesian, mb, gwf_vars, tc_vars, ndebug, navsto_vars, gui_vars>>

\* cs_mesh_cartesian_need_build()
cs_mesh_cartesian_need_build == build_mesh_cartesian

\* cs_mesh_cartesian_get_params()
cs_mesh_cartesian_get_params == mesh_params

\* every direction of the parameters has been defined
AllDirsDefined ==
  mesh_params # NULL /\ \A idim \in Dirs : mesh_params.params[idim] # NULL

\* cs_mesh_cartesian_params_destroy: the pointer of a direction that was
\* never defined is not initialized, and freeing through it is undefined
cs_mesh_cartesian_params_destroy ==
  /\ MeshRunning
  /\ IF mesh_params = NULL THEN UNCHANGED <<mesh_params, mesh_pc>>
     ELSE IF AllDirsDefined THEN mesh_params' = NULL /\ UNCHANGED mesh_pc
     ELSE /\ mesh_pc' \in NullReadOutcomes
          /\ UNCHANGED mesh_params
  /\ UNCHANGED <<build_mesh_cartesian, mb, gwf_vars, tc_vars, ndebug, navsto_vars, gui_vars>>

\* the number of faces cs_mesh_cartesian_connectivity computes
nfaces_of(nx, ny, nz) == 3 * (nx * ny * nz) + nx * ny + nx * ny + ny * nz

\* the face normal to direction d at (i, j, k): its group, its two cells
\* and its four vertices, numbered from i0 = 1
cartesian_face(d, nx, ny, nz, i, j, k) ==
  LET i0 == 1
      nxp1 == nx + 1
      nyp1 == ny + 1
      at == <<i, j, k>>[d + 1]
      n == <<nx, ny, nz>>[d + 1]
      below == IF d = 0 THEN i0 + (i - 1) + j * nx + k * nx * ny
               ELSE IF d = 1 THEN i0 + i + (j - 1) * nx + k * nx * ny
               ELSE i0 + i + j * nx + (k - 1) * nx * ny
      above == IF d = 0 THEN below + 1 ELSE i0 + i + j * nx + k * nx * ny
      v(a, b, c) == i0 + a + b * nxp1 + c * nxp1 * nyp1
  IN [gc_id |-> IF at = 0 THEN 2 * d + 1 ELSE IF at = n THEN 2 * d + 2 ELSE 0,
      c_id1 |-> IF at = 0 THEN 0 ELSE below,
      c_id2 |-> IF at = n THEN 0 ELSE above,
      vtx |-> IF d = 0 THEN <<v(i, j + 1, k), v(i, j + 1, k + 1), v(i, j, k + 1), v(i, j, k)>>
              ELSE IF d = 1 THEN <<v(i, j, k + 1), v(i + 1, j, k + 1), v(i + 1, j, k), v(i, j, k)>>
              ELSE <<v(i + 1, j, k), v(i + 1, j + 1, k), v(i, j + 1, k), v(i, j, k)>>]

\* the writes of one face at the running index f_id: beyond the nfaces
\* allocated slots the write leaves the arrays
write_face(st, nfaces, face) ==
  IF st.f_id >= nfaces THEN [st EXCEPT !.f_id = @ + 1, !.overflow = TRUE]
  ELSE [st EXCEPT !.face_gc_id[st.f_id] = IF face.gc_id # 0 THEN face.gc_id ELSE @,
                  !.face_cells[st.f_id] = <<face.c_id1, face.c_id2>>,
                  !.face_vertices[st.f_id] = face.vtx,
                  !.f_id = @ + 1]

RECURSIVE face_loops(_, _, _, _, _, _, _, _, _)
\* the three nested loops on the faces normal to direction d, from (i, j, k)
face_loops(st, nfaces, d, nx, ny, nz, i, j, k) ==
  LET i_end == IF d = 0 THEN nx + 1 ELSE nx
      j_end == IF d = 1 THEN ny + 1 ELSE ny
      k_end == IF d = 2 THEN nz + 1 ELSE nz
  IN IF k >= k_end THEN st
     ELSE IF j >= j_end THEN face_loops(st, nfaces, d, nx, ny, nz, 0, 0, k + 1)
     ELSE IF i >= i_end THEN face_loops(st, nfaces, d, nx, ny, nz, 0, j + 1, k)
     ELSE face_loops(write_face(st, nfaces, cartesian_face(d, nx, ny, nz, i, j, k)), nfaces, d, nx, ny, nz, i + 1, j, k)

\* the coordinates of the vertices for the constant law
vertex_coords_of(mp, nx, ny, nz) ==
  [v_id \in 0..((nx + 1) * (ny + 1) * (nz + 1) - 1) |->
     LET ijk == <<v_id % (nx + 1), (v_id \div (nx + 1)) % (ny + 1), v_id \div ((nx + 1) * (ny + 1))>>
     IN [idim \in Dirs |-> RAdd(mp.params[idim].smin, RMul(R(ijk[idim + 1]), mp.params[idim].s[1]))]]

\* cs_mesh_cartesian_connectivity(mb, echo) on a new builder: reading the
\* parameters of a direction that was not defined is undefined, and so is a
\* write beyond the allocated faces
cs_mesh_cartesian_connectivity ==
  /\ MeshRunning
  /\ mb = NULL
  /\ IF ~AllDirsDefined THEN mesh_pc' \in NullReadOutcomes /\ UNCHANGED mb
     ELSE LET nx == mesh_params.params[0].ncells
              ny == mesh_params.params[1].ncells
              nz == mesh_params.params[2].ncells
              nfaces == nfaces_of(nx, ny, nz)
              st0 == [f_id |-> 0, overflow |-> FALSE, face_gc_id |-> [f \in 0..(nfaces - 1) |-> 7], face_cells |-> [f \in 0..(nfaces - 1) |-> NULL], face_vertices |-> [f \in 0..(nfaces - 1) |-> NULL]]
              st == face_loops(face_loops(face_loops(st0, nfaces, 0, nx, ny, nz, 0, 0, 0), nfaces, 1, nx, ny, nz, 0, 0, 0), nfaces, 2, nx, ny, nz, 0, 0, 0)
          IN /\ mb' = [n_g_faces |-> nfaces, n_g_face_connect_size |-> nfaces * 2, cell_gc_id |-> [c \in 0..(nx * ny * nz - 1) |-> 7], face_gc_id |-> st.face_gc_id, face_vertices_idx |-> [f \in 0..nfaces |-> f * nvtx_per_face], face_cells |-> st.face_cells, face_vertices |-> st.face_vertices, vertex_coords |-> vertex_coords_of(mesh_params, nx, ny, nz)]
             /\ IF st.overflow THEN mesh_pc' \in NullReadOutcomes ELSE UNCHANGED mesh_pc
  /\ UNCHANGED <<mesh_params, build_mesh_cartesian, gwf_vars, tc_vars, ndebug, navsto_vars, gui_vars>>

InitMesh ==
  /\ GwfIdle /\ BuildIdle /\ TracerIdle /\ GuiIdle /\ MeshIdle
  /\ cm = NULL /\ div = NULL /\ nsb = NULL /\ bc = NULL /\ t_eval = 0

NextMesh ==
  \/ cs_mesh_cartesian_create
  \/ \E ncells \in [Dirs -> NCellsSet], smax \in {R(1), R(-1)} :
       cs_mesh_cartesian_define_simple(ncells, [x \in 0..5 |-> IF x < 3 THEN R(0) ELSE smax])
  \/ \E idim \in Dirs, ncells \in NCellsSet, smax \in {R(1), R(-1)} :
       cs_mesh_cartesian_define_dir_params(idim, "CS_MESH_CARTESIAN_CONSTANT_LAW", ncells, R(0), smax, R(-1))
  \/ cs_mesh_cartesian_params_destroy
  \/ cs_mesh_cartesian_connectivity

SpecMesh == InitMesh /\ [][NextMesh]_vars

\* C29: for all numbers of cells, the number of faces that
\* cs_mesh_cartesian_connectivity declares in n_g_faces and allocates is
\* (nx+1)*ny*nz + nx*(ny+1)*nz + nx*ny*(nz+1), the number of faces it
\* writes: no write falls beyond the allocated faces and every allocated
\* face is written
C29_FaceCount ==
  [][(cs_mesh_cartesian_connectivity /\ AllDirsDefined) =>
       LET nx == mesh_params.params[0].ncells
           ny == mesh_params.params[1].ncells
           nz == mesh_params.params[2].ncells
       IN /\ mb'.n_g_faces = (nx + 1) * ny * nz + nx * (ny + 1) * nz + nx * ny * (nz + 1)
          /\ mesh_pc' = "returned"
          /\ \A f \in 0..(mb'.n_g_faces - 1) : mb'.face_cells[f] # NULL /\ mb'.face_vertices[f] # NULL]_vars

\* C30: after any sequence of cs_mesh_cartesian_create,
\* cs_mesh_cartesian_define_simple, cs_mesh_cartesian_define_dir_params and
\* cs_mesh_cartesian_params_destroy, cs_mesh_cartesian_need_build() returns
\* 1 if and only if cs_mesh_cartesian_get_params() is not NULL
C30_BuildFlag ==
  MeshRunning => ((cs_mesh_cartesian_need_build = 1) <=> (cs_mesh_cartesian_get_params # NULL))

====
